---- MODULE Spec2Model ----
(***************************************************************************)
(* A model of the matrix <-> gmail bridge: the per-user bridge object      *)
(* (app/bridge.py), the user record and its store (app/models.py,          *)
(* app/db.py), the mail client's polling generator (app/gmail.py), the     *)
(* naming codec (app/utils.py, app/nio_client.py).                         *)
(*                                                                         *)
(* Strings are TLC strings; Len, SubSeq, \o, Head and Tail act on them as  *)
(* on sequences of characters, so the codec is modelled character by       *)
(* character.                                                              *)
(*                                                                         *)
(* Granularity: handle_matrix_event is one step (app/main.py awaits the    *)
(* events of a transaction one after the other); a sync cycle is split at  *)
(* its awaits (listing, fetching, delivering, storing the watermark) and   *)
(* events are handled between its steps.  The awaits inside one handler,   *)
(* those of _logout_user among them, are not split.                        *)
(***************************************************************************)
EXTENDS Integers, Sequences, FiniteSets, TLC

None == "None"

(***************************************************************************)
(* Bounds of the model.                                                    *)
(***************************************************************************)
\* events submitted to ingestion in one behaviour
MaxSubmits == 4
\* mails the provider holds in one behaviour (ids 1..MaxMails)
MaxMails == 4
\* addresses in the to list and in the cc list of the mail of SpecRoles
MaxRecipients == 2
\* contents one c_send_msg call puts before the model stops following it
MaxAttempts == 5
\* events in one page of the /sync timeline
PageSize == 2

(***************************************************************************)
(* Python str helpers.                                                     *)
(***************************************************************************)
StartsWith(s, p) == Len(s) >= Len(p) /\ SubSeq(s, 1, Len(p)) = p

\* s[i:] with a 1-based i
From(s, i) == SubSeq(s, i, Len(s))

\* str.find from position i: the 1-based index of the first occurrence, 0 if none
RECURSIVE FindFrom(_, _, _)
FindFrom(s, p, i) ==
    IF i + Len(p) - 1 > Len(s) THEN 0
    ELSE IF SubSeq(s, i, i + Len(p) - 1) = p THEN i
    ELSE FindFrom(s, p, i + 1)

\* str.rfind: the 1-based index of the last occurrence, 0 if none
RECURSIVE RFindFrom(_, _, _)
RFindFrom(s, p, i) ==
    IF i < 1 THEN 0
    ELSE IF SubSeq(s, i, i + Len(p) - 1) = p THEN i
    ELSE RFindFrom(s, p, i - 1)

RFind(s, p) == RFindFrom(s, p, Len(s) - Len(p) + 1)

\* str.replace(old, new): every occurrence, left to right
RECURSIVE Replace(_, _, _)
Replace(s, old, new) ==
    LET i == FindFrom(s, old, 1)
    IN  IF i = 0 THEN s
        ELSE SubSeq(s, 1, i - 1) \o new \o Replace(From(s, i + Len(old)), old, new)

\* str.replace(old, new, 1)
ReplaceFirst(s, old, new) ==
    LET i == FindFrom(s, old, 1)
    IN  IF i = 0 THEN s
        ELSE SubSeq(s, 1, i - 1) \o new \o From(s, i + Len(old))

\* str.removeprefix
RemovePrefix(s, p) == IF StartsWith(s, p) THEN From(s, Len(p) + 1) ELSE s

\* str.strip() for blanks
RECURSIVE LStrip(_)
LStrip(s) == IF Len(s) > 0 /\ Head(s) = " " THEN LStrip(Tail(s)) ELSE s

RECURSIVE RStrip(_)
RStrip(s) ==
    IF Len(s) > 0 /\ SubSeq(s, Len(s), Len(s)) = " "
    THEN RStrip(SubSeq(s, 1, Len(s) - 1)) ELSE s

\* a strip that leaves the blanks
Unstripped(s) == s

Strip(s) == RStrip(LStrip(s))

\* str.lower(), over the capitals the inputs of the model use
LowerOf ==
    [A |-> "a", B |-> "b", C |-> "c", D |-> "d", E |-> "e", F |-> "f", G |-> "g",
     H |-> "h", I |-> "i", J |-> "j", K |-> "k", L |-> "l", M |-> "m", N |-> "n",
     O |-> "o", P |-> "p", Q |-> "q", R |-> "r", S |-> "s", T |-> "t", U |-> "u",
     V |-> "v", W |-> "w", X |-> "x", Y |-> "y", Z |-> "z"]

RECURSIVE Lower(_)
Lower(s) ==
    IF Len(s) = 0 THEN s
    ELSE (IF Head(s) \in DOMAIN LowerOf THEN LowerOf[Head(s)] ELSE Head(s))
         \o Lower(Tail(s))

(***************************************************************************)
(* Naming codec: app/utils.py and the AppserviceClient's name functions.   *)
(***************************************************************************)
email_keyword == "_at_"
NAMESPACE_PREFIX == "_gmail_bridge_"
HOMESERVER_NAME == "jif.one"
appservice_id == "@gmail:jif.one"

email_sanitize(email) == Replace(email, "@", email_keyword)

\* an email_desanitize that cuts at the first keyword
email_desanitize_first(sanitized_email) ==
    LET index == FindFrom(sanitized_email, email_keyword, 1)
    IN  IF index = 0 THEN None
        ELSE SubSeq(sanitized_email, 1, index - 1) \o "@"
             \o From(sanitized_email, index + Len(email_keyword))

\* str.rindex raises ValueError when the keyword is absent: None stands for it
email_desanitize(sanitized_email) ==
    LET index == RFind(sanitized_email, email_keyword)
    IN  IF index = 0 THEN None
        ELSE SubSeq(sanitized_email, 1, index - 1) \o "@"
             \o From(sanitized_email, index + Len(email_keyword))

\* the characters of a string
Chars(s) == {SubSeq(s, i, i) : i \in 1..Len(s)}

\* str.split(sep) for a separator of one character
RECURSIVE Split(_, _)
Split(s, sep) ==
    LET i == FindFrom(s, sep, 1)
    IN  IF i = 0 THEN <<s>>
        ELSE <<SubSeq(s, 1, i - 1)>> \o Split(From(s, i + 1), sep)

\* email_re: atoms of one or more of a-z 0-9 ! # $ % & ' * + / = ? ^ _ { | } ~ -
\* and the backquote, joined by dots; an @; and two or more labels, of letters,
\* digits and inner hyphens, joined by dots.  A string of this language cannot
\* hold a backquote, and no address of the model has one.
AlnumChars == Chars("abcdefghijklmnopqrstuvwxyz0123456789")

AtomChars == AlnumChars \cup Chars("!#$%&'*+/=?^_{|}~-")

IsAtom(s) == Len(s) > 0 /\ Chars(s) \subseteq AtomChars

IsLabel(s) ==
    /\ Len(s) > 0
    /\ Chars(s) \subseteq AlnumChars \cup {"-"}
    /\ SubSeq(s, 1, 1) \in AlnumChars
    /\ SubSeq(s, Len(s), Len(s)) \in AlnumChars

email_re(s) ==
    LET i == FindFrom(s, "@", 1)
        atoms == Split(SubSeq(s, 1, i - 1), ".")
        labels == Split(From(s, i + 1), ".")
    IN  /\ i # 0
        /\ \A k \in 1..Len(atoms) : IsAtom(atoms[k])
        /\ Len(labels) >= 2
        /\ \A k \in 1..Len(labels) : IsLabel(labels[k])

is_valid_email(email) == email_re(Lower(email))

extract_mxid_localpart(mxid) ==
    LET mxid_with_hs_name == ReplaceFirst(mxid, "@", "")
    IN  SubSeq(mxid_with_hs_name, 1, Len(mxid_with_hs_name) - (Len(HOMESERVER_NAME) + 1))

extract_alias_localpart(alias) ==
    LET alias_with_hs_name == ReplaceFirst(alias, "#", "")
    IN  SubSeq(alias_with_hs_name, 1, Len(alias_with_hs_name) - (Len(HOMESERVER_NAME) + 1))

is_our_bot(mxid) == StartsWith(mxid, "@" \o NAMESPACE_PREFIX)

is_our_mxid(mxid) == is_our_bot(mxid) \/ mxid = appservice_id

is_our_alias(alias) == StartsWith(alias, "#" \o NAMESPACE_PREFIX)

generate_bot_mxid(name) == "@" \o NAMESPACE_PREFIX \o name \o ":" \o HOMESERVER_NAME

extract_bot_name(mxid) == RemovePrefix(extract_mxid_localpart(mxid), NAMESPACE_PREFIX)

extract_alias_name(alias) == RemovePrefix(extract_alias_localpart(alias), NAMESPACE_PREFIX)

generate_room_alias(name) == "#" \o NAMESPACE_PREFIX \o name \o ":" \o HOMESERVER_NAME

_generate_bot_mxid(email_address) == generate_bot_mxid(email_sanitize(email_address))

_extract_bot_email(mxid) == email_desanitize(extract_bot_name(mxid))

(***************************************************************************)
(* app/models.py: Token, User, LoggedInUser.  A Python None of a string    *)
(* field is the string None; an absent token is NoToken; an absent         *)
(* watermark (last_mail_id None) is 0, the value `last_mail_id or "0"`     *)
(* gives it, mail ids being positive.                                      *)
(***************************************************************************)
NoToken == [access_token |-> None, refresh_token |-> None, email |-> None]

DEFAULT_EMAIL_NAME == None

NoMailId == 0

\* class User: the defaults of its fields; cls is the Python class of the object
User(matrix_id) ==
    [matrix_id |-> matrix_id, email_name |-> DEFAULT_EMAIL_NAME,
     last_mail_id |-> NoMailId, auth_state |-> "logged_out", token |-> NoToken,
     email_address |-> None, cls |-> "User"]

\* @validator("email_address", always=True)
populate_s(u) ==
    IF u.email_address = None /\ u.token # NoToken
    THEN [u EXCEPT !.email_address = u.token.email]
    ELSE u

\* User.parse_obj / LoggedInUser.parse_obj: validation, then the class of the result.
\* LoggedInUser requires token, email_address and auth_state = logged_in.
ParseUser(u) == [populate_s(u) EXCEPT !.cls = "User"]

ParseLoggedInUser(u) == [populate_s(u) EXCEPT !.cls = "LoggedInUser"]

\* User.narrow
narrow(u) == IF u.auth_state = "logged_in" THEN ParseLoggedInUser(u) ELSE u

\* a logged_in without the validator that resolves the address from the token
logged_in_unresolved(u, token) ==
    [u EXCEPT !.email_address = None, !.token = token, !.auth_state = "logged_in",
              !.cls = "LoggedInUser"]

\* User.logged_in(token): email_address takes the parameter's default, None
logged_in(u, token) ==
    ParseLoggedInUser(ParseUser(
        [u EXCEPT !.email_address = None, !.token = token, !.auth_state = "logged_in"]))

\* a logged_out that leaves the token on the record
logged_out_keeps_token(u) ==
    [ParseUser(u) EXCEPT !.email_address = None, !.auth_state = "logged_out"]

\* LoggedInUser.logged_out
logged_out(u) ==
    [ParseUser(u) EXCEPT !.email_address = None, !.token = NoToken,
                         !.auth_state = "logged_out"]

(***************************************************************************)
(* app/db.py: Db over a key-value store.  The store is a function from the *)
(* keys written so far; a user is stored as its JSON, which has the fields *)
(* of the object and not its class.                                        *)
(***************************************************************************)
UserJson(u) ==
    [matrix_id |-> u.matrix_id, email_name |-> u.email_name,
     last_mail_id |-> u.last_mail_id, auth_state |-> u.auth_state,
     token |-> u.token, email_address |-> u.email_address]

\* User.parse_raw
ParseRaw(j) ==
    populate_s([matrix_id |-> j.matrix_id, email_name |-> j.email_name,
                last_mail_id |-> j.last_mail_id, auth_state |-> j.auth_state,
                token |-> j.token, email_address |-> j.email_address, cls |-> "User"])

KvSet(store, key, val) == [k \in DOMAIN store \cup {key} |-> IF k = key THEN val ELSE store[k]]

_all_user_ids(store) == IF "all" \in DOMAIN store THEN store["all"] ELSE <<>>

InSeq(x, seq) == \E i \in 1..Len(seq) : seq[i] = x

\* an upsert_user that writes a user the first time only
upsert_user_once(store, u) ==
    LET all_user_ids == _all_user_ids(store)
    IN  IF ~InSeq(u.matrix_id, all_user_ids)
        THEN KvSet(KvSet(store, "u:" \o u.matrix_id, UserJson(u)),
                   "all", Append(all_user_ids, u.matrix_id))
        ELSE store

upsert_user(store, u) ==
    LET all_user_ids == _all_user_ids(store)
        s1 == KvSet(store, "u:" \o u.matrix_id, UserJson(u))
    IN  IF ~InSeq(u.matrix_id, all_user_ids)
        THEN KvSet(s1, "all", Append(all_user_ids, u.matrix_id))
        ELSE s1

get_user(store, user_id) ==
    IF ("u:" \o user_id) \in DOMAIN store
    THEN narrow(ParseRaw(store["u:" \o user_id]))
    ELSE User(user_id)

_get_all_users(store) ==
    LET all_user_ids == _all_user_ids(store)
    IN  [i \in 1..Len(all_user_ids) |-> get_user(store, all_user_ids[i])]

all_active_users(store) ==
    LET users == _get_all_users(store)
        narrowed == [i \in 1..Len(users) |-> narrow(users[i])]
    IN  SelectSeq(narrowed, LAMBDA n : n.cls = "LoggedInUser")

add_event(store, transaction_id) == KvSet(store, "t:" \o transaction_id, "{}")

event_exists(store, transaction_id) == ("t:" \o transaction_id) \in DOMAIN store

(***************************************************************************)
(* The world a UserBridge acts on, as one record w:                        *)
(*   user, gm          the bridge's user object and its mail client        *)
(*   kv                the persistent store                                *)
(*   rooms             the chat server: per room its joined members, the   *)
(*                     users map and users_default of m.room.power_levels, *)
(*                     its aliases and its name                            *)
(*   threads           the number of mail threads started at the provider  *)
(*   sent, mails, raised, closed, created, revoked                         *)
(*                     what the operation in progress did: chat messages   *)
(*                     sent, mails sent, the exception it ended with,      *)
(*                     mail clients closed and created, tokens revoked     *)
(*   passes, effects   per event id: times past the ledger check, mails    *)
(*                     sent on its behalf                                  *)
(***************************************************************************)
NoClient == [token |-> NoToken, email_id |-> None, email_name |-> None]

\* GmailClient.new(token, service_key, email_address, email_name)
NewClient(token, email_address, email_name) ==
    [token |-> token, email_id |-> email_address, email_name |-> email_name]

Raise(w, exc) == [w EXCEPT !.raised = exc]

\* nc.c_send_msg(room_id, body): kind names the text, arg what it is formatted with
Send(w, room_id, kind, arg) ==
    [w EXCEPT !.sent = Append(@, [room |-> room_id, kind |-> kind, arg |-> arg])]

Upsert(w) == [w EXCEPT !.kv = upsert_user(w.kv, w.user)]

\* a user.json that excludes nothing
StatusJson_with_token(u) ==
    [matrix_id |-> u.matrix_id, email_name |-> u.email_name,
     last_mail_id |-> u.last_mail_id, auth_state |-> u.auth_state,
     token |-> u.token, email_address |-> u.email_address]

\* user.json(indent=2, exclude={'token'})
StatusJson(u) ==
    [matrix_id |-> u.matrix_id, email_name |-> u.email_name,
     last_mail_id |-> u.last_mail_id, auth_state |-> u.auth_state,
     email_address |-> u.email_address]

CloseClient(w) == [w EXCEPT !.closed = @ + 1]

\* a _restart_gmail_client that does not return when there is no client
_restart_gmail_client_always(w) ==
    LET w1 == IF w.gm = NoClient THEN w ELSE CloseClient(w)
    IN  IF w1.user.token = NoToken THEN Raise(w1, "AssertionError")
        ELSE [w1 EXCEPT !.gm = NewClient(w1.user.token, w1.user.email_address,
                                         w1.user.email_name),
                        !.created = @ + 1]

_restart_gmail_client(w) ==
    IF w.gm = NoClient THEN w
    ELSE LET w1 == CloseClient(w)
         IN  IF w1.user.token = NoToken THEN Raise(w1, "AssertionError")
             ELSE [w1 EXCEPT !.gm = NewClient(w1.user.token, w1.user.email_address,
                                              w1.user.email_name),
                             !.created = @ + 1]

\* a logout that does not save the user
_logout_user_unsaved(w) ==
    IF w.user.cls # "LoggedInUser" THEN Raise(w, "AssertionError")
    ELSE IF w.gm = NoClient THEN Raise(w, "AssertionError")
    ELSE [CloseClient([w EXCEPT !.user = logged_out(w.user)]) EXCEPT !.gm = NoClient]

_logout_user(w) ==
    IF w.user.cls # "LoggedInUser" THEN Raise(w, "AssertionError")
    ELSE IF w.gm = NoClient THEN Raise(w, "AssertionError")
    ELSE LET w1 == Upsert([w EXCEPT !.user = logged_out(w.user)])
         IN  [CloseClient(w1) EXCEPT !.gm = NoClient]

\* the token the provider issues for an accepted authorization code
IssuedToken == [access_token |-> "at1", refresh_token |-> "rt1", email |-> "me@gmail.com"]

\* GoogleAuth.revoke_token: the access token is revoked at the provider
revoke_token(w, token) == [w EXCEPT !.revoked = Append(@, token.access_token)]

\* GoogleAuth.get_access_token: the outcomes of the exchange
ExchangeOutcomes == {"ok", "GetAccessTokenError", "ScopesMissing"}

_handle_dm(w, event, exchange) ==
    LET msg == Lower(Strip(event.body))
        room_id == event.room_id
    IN  IF msg = "status"
        THEN Send(w, room_id, "status", StatusJson(w.user))
        ELSE IF StartsWith(msg, "name ")
        THEN LET w1 == _restart_gmail_client(
                           Upsert([w EXCEPT !.user.email_name = From(msg, 6)]))
             IN  IF w1.raised # None THEN w1
                 ELSE Send(w1, room_id, "name_set", From(msg, 6))
        ELSE IF StartsWith(msg, "email ")
        THEN LET w1 == _restart_gmail_client(
                           Upsert([w EXCEPT !.user.email_address = From(msg, 7)]))
             IN  IF w1.raised # None THEN w1
                 ELSE Send(w1, room_id, "email_set", From(msg, 7))
        ELSE IF w.user.auth_state = "logged_out"
        THEN IF msg # "start"
             THEN Send(w, room_id, "help", None)
             ELSE Upsert([Send(w, room_id, "url", None)
                            EXCEPT !.user.auth_state = "waiting_for_token"])
        ELSE IF w.user.auth_state = "waiting_for_token"
        THEN IF exchange # "ok"
             THEN Send(w, room_id, "error", exchange)
             ELSE LET w1 == Upsert([w EXCEPT !.user = logged_in(w.user, IssuedToken)])
                  IN  IF w1.gm # NoClient THEN Raise(w1, "AssertionError")
                      ELSE Send([w1 EXCEPT !.gm = NewClient(w1.user.token,
                                                           w1.user.email_address,
                                                           w1.user.email_name),
                                           !.created = @ + 1],
                                room_id, "login_ok", IssuedToken.email)
        ELSE IF w.user.auth_state = "logged_in"
        THEN IF msg = "logout"
             THEN LET w1 == _logout_user(w)
                  IN  IF w1.raised # None THEN w1
                      ELSE Send(w1, room_id, "logout_ok", None)
             ELSE Send(w, room_id, "help", None)
        ELSE Raise(w, "NotImplementedError")

(***************************************************************************)
(* The chat server as the AppserviceClient sees it (app/nio_client.py).    *)
(***************************************************************************)
get_room_members(w, room_id) == w.rooms[room_id].members

get_room_power_levels(w, room_id) ==
    LET r == w.rooms[room_id]
    IN  [m \in r.members |-> IF m \in DOMAIN r.users THEN r.users[m] ELSE r.users_default]

get_room_aliases(w, room_id) == w.rooms[room_id].aliases

get_room_name(w, room_id) == w.rooms[room_id].name

set_room_alias(w, room_id, room_alias) ==
    [w EXCEPT !.rooms[room_id].aliases = Append(@, room_alias)]

join_room(w, room_id, mxid) == [w EXCEPT !.rooms[room_id].members = @ \cup {mxid}]

\* resolve_room_alias: the room that carries the alias, None (M_NOT_FOUND) if none does
resolve_room_alias(w, room_alias) ==
    IF \E r \in DOMAIN w.rooms : InSeq(room_alias, w.rooms[r].aliases)
    THEN CHOOSE r \in DOMAIN w.rooms : InSeq(room_alias, w.rooms[r].aliases)
    ELSE None

(***************************************************************************)
(* UserBridge: thread rooms (app/bridge.py).                                *)
(***************************************************************************)
_generate_room_alias(w, thread_id) ==
    generate_room_alias(thread_id \o "." \o email_sanitize(w.user.email_address))

\* an _extract_alias_thread that cuts at the last dot
_extract_alias_thread_last_dot(alias) ==
    LET thread_and_email == extract_alias_name(alias)
        i == RFind(thread_and_email, ".")
    IN  IF i = 0 THEN thread_and_email ELSE SubSeq(thread_and_email, 1, i - 1)

\* thread_and_email.split(".")[0]
_extract_alias_thread(alias) ==
    LET thread_and_email == extract_alias_name(alias)
        i == FindFrom(thread_and_email, ".", 1)
    IN  IF i = 0 THEN thread_and_email ELSE SubSeq(thread_and_email, 1, i - 1)

\* the thread of a room: None if it has no alias of ours; AssertionError stands
\* for the assertion that fails when it has more than one
_get_thread_from_room(w, room_id) ==
    LET thread_aliases == SelectSeq(get_room_aliases(w, room_id), is_our_alias)
    IN  IF Len(thread_aliases) > 1 THEN "AssertionError"
        ELSE IF Len(thread_aliases) = 1 THEN _extract_alias_thread(thread_aliases[1])
        ELSE None

\* the id the provider gives the n-th thread started through the bridge
NewThreadId(n) == "t" \o ToString(n)

\* the outcomes of the mail call and the alias call of _handle_thread_msg
GmOutcomes == {"ok", "TokenExpiredException", "SendError", "AliasError"}

ThreadTo(w, room_id) ==
    LET power_levels == get_room_power_levels(w, room_id)
        bots == {b \in DOMAIN power_levels : is_our_bot(b)}
    IN  {_extract_bot_email(b) : b \in {x \in bots : power_levels[x] = 0}}

ThreadCc(w, room_id) ==
    LET power_levels == get_room_power_levels(w, room_id)
        bots == {b \in DOMAIN power_levels : is_our_bot(b)}
    IN  {_extract_bot_email(b) : b \in {x \in bots : power_levels[x] = 1}}

SendMail(w, event, kind, thread_id, to, cc, subject) ==
    [w EXCEPT !.mails = Append(@, [kind |-> kind, thread_id |-> thread_id, to |-> to,
                                   cc |-> cc, subject |-> subject,
                                   event_id |-> event.event_id]),
              !.effects[event.event_id] = @ + 1]

\* a _handle_thread_msg whose help branch does not return: the mail call is made on
\* the client the user does not have
_handle_thread_msg_no_return(w, event, outcome) ==
    LET room_id == event.room_id
        room_thread == _get_thread_from_room(w, room_id)
        to == ThreadTo(w, room_id)
        cc == ThreadCc(w, room_id)
    IN  IF room_thread = "AssertionError" THEN Raise(w, "AssertionError")
        ELSE IF w.gm = NoClient
        THEN Raise(Send(w, room_id, "help", None), "AttributeError")
        ELSE IF outcome \in {"TokenExpiredException", "SendError"} THEN Raise(w, outcome)
        ELSE IF room_thread = None
        THEN LET thread_id == NewThreadId(w.threads + 1)
                 w1 == SendMail([w EXCEPT !.threads = @ + 1], event, "new", thread_id,
                                to, cc, get_room_name(w, room_id))
             IN  IF w1.user.cls # "LoggedInUser" THEN Raise(w1, "AssertionError")
                 ELSE IF outcome = "AliasError" THEN Raise(w1, "RequestException")
                 ELSE set_room_alias(w1, room_id, _generate_room_alias(w1, thread_id))
        ELSE SendMail(w, event, "reply", room_thread, to, cc, None)

_handle_thread_msg(w, event, outcome) ==
    LET room_id == event.room_id
        room_thread == _get_thread_from_room(w, room_id)
        to == ThreadTo(w, room_id)
        cc == ThreadCc(w, room_id)
    IN  IF room_thread = "AssertionError" THEN Raise(w, "AssertionError")
        ELSE IF w.gm = NoClient THEN Send(w, room_id, "help", None)
        ELSE IF outcome \in {"TokenExpiredException", "SendError"} THEN Raise(w, outcome)
        ELSE IF room_thread = None
        THEN LET thread_id == NewThreadId(w.threads + 1)
                 w1 == SendMail([w EXCEPT !.threads = @ + 1], event, "new", thread_id,
                                to, cc, get_room_name(w, room_id))
             IN  IF w1.user.cls # "LoggedInUser" THEN Raise(w1, "AssertionError")
                 ELSE IF outcome = "AliasError" THEN Raise(w1, "RequestException")
                 ELSE set_room_alias(w1, room_id, _generate_room_alias(w1, thread_id))
        ELSE SendMail(w, event, "reply", room_thread, to, cc, None)

(***************************************************************************)
(* The chat accounts, rooms and events of the model.                       *)
(***************************************************************************)
Alice == "@alice:jif.one"
Bob == "@bob:jif.one"
BotX == _generate_bot_mxid("x@y.com")
BotY == _generate_bot_mxid("y@y.com")
BotZ == _generate_bot_mxid("z@y.com")

Ev(id, type, room_id, body) ==
    [event_id |-> id, type |-> type, room_id |-> room_id, sender |-> Alice,
     body |-> body, membership |-> None, state_key |-> None]

\* texts typed in the room Alice shares with the bridge alone
DmTexts ==
    {Ev("$start", "text", "!dm", " Start "), Ev("$logout", "text", "!dm", "logout"),
     Ev("$status", "text", "!dm", "status"),
     Ev("$name", "text", "!dm", "name Al"), Ev("$email", "text", "!dm", "email al@x.io"),
     Ev("$code", "text", "!dm", "4/0AbC")}

DmMedia == Ev("$pic", "media", "!dm", "pic.png")

\* messages typed in a room with virtual accounts, and in one with a second human
ThreadMsgs == {Ev("$t1", "text", "!thr", "hello"), Ev("$t2", "media", "!thr", "doc.pdf")}

MultiMsg == Ev("$m1", "text", "!multi", "hi all")

\* Alice invites the virtual account of y@y.com into the thread room
Invite ==
    [Ev("$inv", "member", "!thr", None) EXCEPT !.membership = "invite", !.state_key = BotY]

\* an event of a type the bridge does not handle
Reaction == Ev("$react", "other", "!thr", None)

\* the room _handle_mail creates for the thread g1 of the mailbox me@gmail.com,
\* and Alice's answer in it
MailRoom == "!" \o generate_room_alias("g1." \o email_sanitize("me@gmail.com"))

Reply == Ev("$r1", "text", MailRoom, "fine")

Events == DmTexts \cup {DmMedia} \cup ThreadMsgs \cup {MultiMsg, Invite, Reaction, Reply}

\* a room Alice shares with the virtual account of x@y.com, with a longer history:
\* a message, the invite of the virtual account of y@y.com, a message, an event
\* nio cannot parse, a file, the join of the invited account, and a message after it
HistTimeline ==
    <<Ev("$h0", "text", "!hist", "early"),
      [Ev("$inv2", "member", "!hist", None) EXCEPT !.membership = "invite",
                                                   !.state_key = BotY],
      Ev("$h1", "text", "!hist", "one"),
      Ev("$hbad", "bad", "!hist", None),
      Ev("$h2", "media", "!hist", "two.pdf"),
      [Ev("$hjoin", "member", "!hist", None) EXCEPT !.membership = "join",
                                                    !.state_key = BotY,
                                                    !.sender = BotY],
      Ev("$h3", "text", "!hist", "three")>>

HistEvents == {HistTimeline[i] : i \in 1..Len(HistTimeline)}

\* a room Alice shares with the virtual account of x@y.com: she invites the
\* virtual account of y@y.com; after the invite stand a mail of x@y.com, which the
\* bridge sent into the room as the virtual account, and a notice the bridge sent
\* as the application service
OwnTimeline ==
    <<[Ev("$inv3", "member", "!own", None) EXCEPT !.membership = "invite",
                                                  !.state_key = BotY],
      [Ev("$own1", "text", "!own", "see you") EXCEPT !.sender = BotX],
      [Ev("$own2", "text", "!own", "notice") EXCEPT !.sender = appservice_id]>>

OwnEvents == {OwnTimeline[i] : i \in 1..Len(OwnTimeline)}

EventIds == {e.event_id : e \in Events \cup HistEvents \cup OwnEvents}

EventOf(id) == CHOOSE e \in Events \cup HistEvents \cup OwnEvents : e.event_id = id

\* the timeline of the thread room: the invite, then the two messages
Timeline(room_id) ==
    IF room_id = "!thr"
    THEN <<Invite, EventOf("$t1"), EventOf("$t2")>>
    ELSE IF room_id = "!hist" THEN HistTimeline
    ELSE IF room_id = "!own" THEN OwnTimeline
    ELSE <<>>

\* what the chat server shows the bridge of a room's timeline: the events from
\* index visible_from on may be read one by one (m.room.history_visibility), and
\* those from index sync_from on are returned by /sync, page by page
History(visible_from, sync_from) == [visible_from |-> visible_from, sync_from |-> sync_from]

FullHistory == History(1, 1)

InitRooms ==
    [r \in {"!dm", "!thr", "!multi"} |->
        CASE r = "!dm" ->
                [members |-> {appservice_id, Alice}, users |-> (Alice :> 100),
                 users_default |-> 0, aliases |-> <<>>, name |-> "bridge",
                 history |-> FullHistory]
          [] r = "!thr" ->
                [members |-> {appservice_id, Alice, BotX, BotZ},
                 users |-> (Alice :> 100 @@ BotX :> 0 @@ BotZ :> (-1)),
                 users_default |-> 0, aliases |-> <<>>, name |-> "trip",
                 history |-> FullHistory]
          [] r = "!multi" ->
                [members |-> {appservice_id, Alice, Bob, BotX}, users |-> (Alice :> 100),
                 users_default |-> 0, aliases |-> <<>>, name |-> "party",
                 history |-> FullHistory]]

\* the pages /sync returns for a timeline, the newest first, each in timeline order
RECURSIVE SyncPages(_)
SyncPages(timeline) ==
    IF Len(timeline) = 0 THEN <<>>
    ELSE IF Len(timeline) <= PageSize THEN <<timeline>>
    ELSE <<SubSeq(timeline, Len(timeline) - PageSize + 1, Len(timeline))>>
         \o SyncPages(SubSeq(timeline, 1, Len(timeline) - PageSize))

Reversed(s) == [i \in 1..Len(s) |-> s[Len(s) + 1 - i]]

\* for event in reversed(events): stop at after_event_id, skip what nio cannot parse
RECURSIVE ScanEvents(_, _, _)
ScanEvents(events, after_event_id, rv) ==
    IF Len(events) = 0 THEN [rv |-> rv, found |-> FALSE]
    ELSE LET event == events[Len(events)]
             rest == SubSeq(events, 1, Len(events) - 1)
         IN  IF event.event_id = after_event_id THEN [rv |-> rv, found |-> TRUE]
             ELSE IF event.type = "bad" THEN ScanEvents(rest, after_event_id, rv)
             ELSE ScanEvents(rest, after_event_id, Append(rv, event))

\* while True: one /sync page after the other, until the event is found or the
\* server has no more
RECURSIVE ScanPages(_, _, _)
ScanPages(pages, after_event_id, rv) ==
    IF Len(pages) = 0 THEN [rv |-> rv, found |-> FALSE]
    ELSE LET r == ScanEvents(Head(pages), after_event_id, rv)
         IN  IF r.found THEN r ELSE ScanPages(Tail(pages), after_event_id, r.rv)

\* c_room_get_event(room_id, after_event_id) is not forbidden
EventVisible(w, room_id, after_event_id) ==
    \E i \in w.rooms[room_id].history.visible_from..Len(Timeline(room_id)) :
        Timeline(room_id)[i].event_id = after_event_id

\* the loop over the pages of the part of the timeline that /sync returns
ScanTimeline(w, room_id, after_event_id) ==
    ScanPages(SyncPages(SubSeq(Timeline(room_id), w.rooms[room_id].history.sync_from,
                               Len(Timeline(room_id)))),
              after_event_id, <<>>)

\* the assertions on what the loop found, and the value returned
OldEvents(event_visible, r) ==
    IF r.found /\ ~event_visible THEN [events |-> <<>>, raised |-> "AssertionError"]
    ELSE IF event_visible /\ ~r.found THEN [events |-> <<>>, raised |-> "AssertionError"]
    ELSE [events |-> Reversed(r.rv), raised |-> None]

\* get_old_events giving up when the event is not visible
get_old_events_strict(w, room_id, after_event_id) ==
    IF \A i \in 1..Len(Timeline(room_id)) : Timeline(room_id)[i].event_id # after_event_id
    THEN [events |-> <<>>, raised |-> "RequestException"]
    ELSE IF ~EventVisible(w, room_id, after_event_id)
    THEN [events |-> <<>>, raised |-> None]
    ELSE OldEvents(TRUE, ScanTimeline(w, room_id, after_event_id))

\* get_old_events(room_id, after_event_id, flexible_visibility=True)
get_old_events(w, room_id, after_event_id) ==
    IF \A i \in 1..Len(Timeline(room_id)) : Timeline(room_id)[i].event_id # after_event_id
    THEN [events |-> <<>>, raised |-> "RequestException"]
    ELSE OldEvents(EventVisible(w, room_id, after_event_id),
                   ScanTimeline(w, room_id, after_event_id))

(***************************************************************************)
(* UserBridge: event ingestion (app/bridge.py).                            *)
(***************************************************************************)
try_email_desanitize(localpart) == email_desanitize(localpart)

_is_valid_bot_mxid(mxid) ==
    is_our_mxid(mxid) /\ try_email_desanitize(extract_mxid_localpart(mxid)) # None

_accept_room_invite(w, event) ==
    IF event.membership # "invite" THEN w
    ELSE IF is_our_mxid(event.sender) THEN w
    ELSE IF event.state_key = appservice_id THEN join_room(w, event.room_id, appservice_id)
    ELSE IF ~_is_valid_bot_mxid(event.state_key) THEN w
    ELSE join_room(join_room(w, event.room_id, event.state_key),
                   event.room_id, appservice_id)

RECURSIVE handle_matrix_event(_, _, _)
RECURSIVE ReplayEvents(_, _, _)

\* o.exchange: the outcome of a code exchange; o.gm[id]: that of the mail call for event id.
\* for event in ...: await self.handle_matrix_event(event), once the first is handled
ReplayRest(w1, old_events, o) ==
    IF w1.raised # None THEN w1 ELSE ReplayEvents(w1, Tail(old_events), o)

ReplayEvents(w, old_events, o) ==
    IF Len(old_events) = 0 THEN w
    ELSE ReplayRest(handle_matrix_event(w, Head(old_events), o), old_events, o)

ReplayOld(w, old, o) ==
    IF old.raised # None THEN Raise(w, old.raised) ELSE ReplayEvents(w, old.events, o)

_replay_matrix_events(w, since_event_id, room_id, o) ==
    ReplayOld(w, get_old_events(w, room_id, since_event_id), o)

\* a HandleMessage whose refusal does not return: the message is dispatched as well
HandleMessage_refusal_falls_through(w, event, o) ==
    LET room_id == event.room_id
        members == get_room_members(w, room_id)
        other_users == {m \in members : m # appservice_id /\ ~is_our_bot(m)}
        bots == {m \in members : m # appservice_id /\ is_our_bot(m)}
        appservice_in_room == appservice_id \in members
        is_dm == Cardinality(bots) = 0
        w0 == IF Cardinality(other_users) > 1 THEN Send(w, room_id, "refused", None)
              ELSE w
    IN  IF is_dm
        THEN IF event.type = "media"
             THEN Send(Send(w0, room_id, "no_media", None), room_id, "help", None)
             ELSE _handle_dm(w0, event, o.exchange)
        ELSE LET w1 == IF appservice_in_room THEN w0
                       ELSE join_room(w0, room_id, appservice_id)
                 w2 == _handle_thread_msg(w1, event, o.gm[event.event_id])
             IN  IF w2.raised = "TokenExpiredException"
                 THEN _logout_user(Send([w2 EXCEPT !.raised = None],
                                        room_id, "expired", None))
                 ELSE w2

HandleMessage(w, event, o) ==
    LET room_id == event.room_id
        members == get_room_members(w, room_id)
        other_users == {m \in members : m # appservice_id /\ ~is_our_bot(m)}
        bots == {m \in members : m # appservice_id /\ is_our_bot(m)}
        appservice_in_room == appservice_id \in members
        is_dm == Cardinality(bots) = 0
    IN  IF Cardinality(other_users) > 1
        THEN [Send(w, room_id, "refused", None) EXCEPT !.returned = TRUE]
        ELSE IF is_dm
        THEN IF event.type = "media"
             THEN Send(Send(w, room_id, "no_media", None), room_id, "help", None)
             ELSE _handle_dm(w, event, o.exchange)
        ELSE LET w1 == IF appservice_in_room THEN w
                       ELSE join_room(w, room_id, appservice_id)
                 w2 == _handle_thread_msg(w1, event, o.gm[event.event_id])
             IN  IF w2.raised = "TokenExpiredException"
                 THEN _logout_user(Send([w2 EXCEPT !.raised = None],
                                        room_id, "expired", None))
                 ELSE w2

\* a handle_matrix_event that records the id of an event whose dispatch raised
handle_matrix_event_records_first(w, event, o) ==
    LET w0 == [w EXCEPT !.subs[event.event_id] = @ + 1]
    IN  IF event_exists(w0.kv, event.event_id) THEN w0
        ELSE LET w1 == [w0 EXCEPT !.passes[event.event_id] = @ + 1]
                 w2 == IF event.type = "member"
                       THEN IF event.membership = "invite"
                            THEN LET w3 == _accept_room_invite(w1, event)
                                 IN  IF _is_valid_bot_mxid(event.state_key)
                                     THEN _replay_matrix_events(w3, event.event_id,
                                                                event.room_id, o)
                                     ELSE w3
                            ELSE w1
                       ELSE IF event.type \in {"text", "media"}
                       THEN HandleMessage(w1, event, o)
                       ELSE w1
             IN  IF w2.raised # None
                 THEN [w2 EXCEPT !.kv = add_event(w2.kv, event.event_id)]
                 ELSE IF w2.returned THEN [w2 EXCEPT !.returned = FALSE]
                 ELSE [w2 EXCEPT !.kv = add_event(w2.kv, event.event_id)]

handle_matrix_event(w, event, o) ==
    LET w0 == [w EXCEPT !.subs[event.event_id] = @ + 1]
    IN  IF event_exists(w0.kv, event.event_id) THEN w0
        ELSE LET w1 == [w0 EXCEPT !.passes[event.event_id] = @ + 1]
                 w2 == IF event.type = "member"
                       THEN IF event.membership = "invite"
                            THEN LET w3 == _accept_room_invite(w1, event)
                                 IN  IF _is_valid_bot_mxid(event.state_key)
                                     THEN _replay_matrix_events(w3, event.event_id,
                                                                event.room_id, o)
                                     ELSE w3
                            ELSE w1
                       ELSE IF event.type \in {"text", "media"}
                       THEN HandleMessage(w1, event, o)
                       ELSE w1
             IN  IF w2.raised # None THEN w2
                 ELSE IF w2.returned THEN [w2 EXCEPT !.returned = FALSE]
                 ELSE [w2 EXCEPT !.kv = add_event(w2.kv, event.event_id)]

(***************************************************************************)
(* The mail provider: the mails of the model, by id.  Ids are naturals:    *)
(* their order stands for the order of the provider's id strings, and 0    *)
(* for the "0" a client starts from when the user has no last_mail_id.     *)
(***************************************************************************)
Me == IssuedToken.email

\* recent: the mail is of the last day, the time the listing of a cycle looks back
Mail(id, thread_id, sender, to, cc) ==
    [gmail_id |-> id, thread_id |-> thread_id, sender |-> sender, to |-> to, cc |-> cc,
     attachment |-> <<>>, recent |-> TRUE]

\* models.Attachment: its name and mime type
Attachment(name, mime_type) == [name |-> name, mime_type |-> mime_type]

MailOf(id) ==
    CASE id = 1 -> Mail(1, "g1", "x@y.com", <<Me>>, <<"z@y.com">>)
      [] id = 2 -> [Mail(2, "g1", "y@y.com", <<Me, "x@y.com">>, <<"x@y.com">>)
                       EXCEPT !.attachment = <<Attachment("b.pdf", "application/pdf"),
                                               Attachment("a.png", "image/png")>>]
      [] id = 3 -> Mail(3, "g1", Me, <<"x@y.com">>, <<>>)
      [] OTHER  -> [Mail(id, "g2", "z@y.com", <<Me>>, <<Me, "y@y.com">>)
                       EXCEPT !.attachment = <<Attachment("v.mp4", "video/mp4")>>]

Range(seq) == {seq[i] : i \in 1..Len(seq)}

(***************************************************************************)
(* UserBridge: a mail becomes a message of its thread's room               *)
(* (app/bridge.py).                                                        *)
(***************************************************************************)
\* a role map in which the carbon copies are written last
_get_bot_power_levels_cc_last(w, cc, to, sender) ==
    LET ccPowers == [m \in {_generate_bot_mxid(e) :
                              e \in {x \in Range(cc) : x # w.user.email_address}} |-> -1]
        toPowers == [m \in {_generate_bot_mxid(e) :
                              e \in {x \in Range(to) \cup {sender} :
                                       x # w.user.email_address}} |-> 0]
    IN  ccPowers @@ toPowers

_get_bot_power_levels(w, cc, to, sender) ==
    LET ccPowers == [m \in {_generate_bot_mxid(e) :
                              e \in {x \in Range(cc) : x # w.user.email_address}} |-> -1]
        toPowers == [m \in {_generate_bot_mxid(e) :
                              e \in {x \in Range(to) \cup {sender} :
                                       x # w.user.email_address}} |-> 0]
    IN  toPowers @@ ccPowers

\* room_create(invite, power_level_override, alias, name), the invited accounts joined
room_create(w, room_id, invite, powers, room_alias, name) ==
    [w EXCEPT !.rooms = @ @@ (room_id :>
        [members |-> {appservice_id} \cup invite,
         users |-> powers @@ (appservice_id :> 100),
         users_default |-> 0, aliases |-> <<room_alias>>, name |-> name,
         history |-> FullHistory])]

\* set_room_power_levels: state['users'].update(power_levels)
set_room_power_levels(w, room_id, power_levels) ==
    [w EXCEPT !.rooms[room_id].users = power_levels @@ @]

\* AttachmentType.from_mime_type, and the msgtype c_send_attachement gives the type
from_mime_type(mime) ==
    IF StartsWith(mime, "image") THEN "image"
    ELSE IF StartsWith(mime, "video") THEN "video"
    ELSE IF StartsWith(mime, "audio") THEN "audio"
    ELSE "unknown"

MsgType(attachment) ==
    CASE from_mime_type(attachment.mime_type) = "image" -> "m.image"
      [] from_mime_type(attachment.mime_type) = "audio" -> "m.audio"
      [] from_mime_type(attachment.mime_type) = "video" -> "m.video"
      [] OTHER -> "m.file"

\* the event id the chat server gives the n-th message of an operation
SentEventId(n) == "$s" \o ToString(n)

\* the attachments sent last first
RECURSIVE SendAttachments_reversed(_, _, _, _, _)
SendAttachments_reversed(w, room_id, sender_mxid, attachments, info) ==
    IF Len(attachments) = 0 THEN w
    ELSE LET a == attachments[Len(attachments)]
         IN  SendAttachments_reversed(
                 Send(w, room_id, "attachment",
                      [body |-> a.name, msgtype |-> MsgType(a), as_bot |-> sender_mxid,
                       info |-> info]),
                 room_id, sender_mxid, SubSeq(attachments, 1, Len(attachments) - 1), info)

\* for a in mail.content.attachment: c_send_attachement(room_id, sender_mxid, a, info)
RECURSIVE SendAttachments(_, _, _, _, _)
SendAttachments(w, room_id, sender_mxid, attachments, info) ==
    IF Len(attachments) = 0 THEN w
    ELSE SendAttachments(
             Send(w, room_id, "attachment",
                  [body |-> Head(attachments).name, msgtype |-> MsgType(Head(attachments)),
                   as_bot |-> sender_mxid, info |-> info]),
             room_id, sender_mxid, Tail(attachments), info)

\* the attachments, then the body: the ids of the attachment messages go with it
SendMailMessages(w, room_id, sender_mxid, mail) ==
    LET attachement_metadata == [to |-> mail.to, cc |-> mail.cc, mail_id |-> mail.gmail_id,
                                 sender |-> mail.sender]
        first == Len(w.sent)
        w1 == SendAttachments(w, room_id, sender_mxid, mail.attachment,
                              attachement_metadata)
        attachement_msg_ids == [i \in 1..Len(mail.attachment) |-> SentEventId(first + i)]
    IN  Send(w1, room_id, "mail",
             [as_bot |-> sender_mxid, info |-> attachement_metadata,
              attachement_ids |-> attachement_msg_ids])

\* the outcomes of the chat calls of _handle_mail
DeliverOutcomes == {"ok", "Forbidden", "RequestException"}

\* a _handle_mail that does not invite the participants into a room that exists
_handle_mail_no_invite(w, mail, outcome) ==
    IF w.user.cls # "LoggedInUser" THEN Raise(w, "AssertionError")
    ELSE
    LET room_alias == _generate_room_alias(w, mail.thread_id)
        room_id == resolve_room_alias(w, room_alias)
        powers == _get_bot_power_levels(w, mail.cc, mail.to, mail.sender)
        bots == DOMAIN powers
        sender_mxid == _generate_bot_mxid(mail.sender)
    IN  IF outcome # "ok" THEN Raise(w, outcome)
        ELSE IF room_id = None
        THEN LET new_id == "!" \o room_alias
             IN  SendMailMessages(room_create(w, new_id, {w.user.matrix_id} \cup bots,
                                              powers, room_alias, mail.thread_id),
                                  new_id, sender_mxid, mail)
        ELSE SendMailMessages(set_room_power_levels(w, room_id, powers),
                              room_id, sender_mxid, mail)

_handle_mail(w, mail, outcome) ==
    IF w.user.cls # "LoggedInUser" THEN Raise(w, "AssertionError")
    ELSE
    LET room_alias == _generate_room_alias(w, mail.thread_id)
        room_id == resolve_room_alias(w, room_alias)
        powers == _get_bot_power_levels(w, mail.cc, mail.to, mail.sender)
        bots == DOMAIN powers
        sender_mxid == _generate_bot_mxid(mail.sender)
    IN  IF outcome # "ok" THEN Raise(w, outcome)
        ELSE IF room_id = None
        THEN LET new_id == "!" \o room_alias
             IN  SendMailMessages(room_create(w, new_id, {w.user.matrix_id} \cup bots,
                                              powers, room_alias, mail.thread_id),
                                  new_id, sender_mxid, mail)
        ELSE SendMailMessages(set_room_power_levels(
                                  [w EXCEPT !.rooms[room_id].members = @ \cup bots],
                                  room_id, powers),
                              room_id, sender_mxid, mail)

(***************************************************************************)
(* GmailClient: the ids of the new mails (app/gmail.py).                   *)
(***************************************************************************)
RECURSIVE Flatten(_)
Flatten(pages) == IF Len(pages) = 0 THEN <<>> ELSE Head(pages) \o Flatten(Tail(pages))

\* sorted(S), ascending
RECURSIVE Sorted(_)
Sorted(S) ==
    IF S = {} THEN <<>>
    ELSE LET m == CHOOSE x \in S : \A y \in S : x <= y
         IN  <<m>> \o Sorted(S \ {m})

\* the provider lists the newest first
RECURSIVE Newest(_)
Newest(S) ==
    IF S = {} THEN <<>>
    ELSE LET m == CHOOSE x \in S : \A y \in S : x >= y
         IN  <<m>> \o Newest(S \ {m})

\* the new ids as the pages list them: no set, no sort
_get_new_email_ids_as_listed(pages, last_mail_id) ==
    SelectSeq(Flatten(pages), LAMBDA i : i > last_mail_id)

\* sorted(filter(lambda i: i > self.last_mail_id, set(ids)))
_get_new_email_ids(pages, last_mail_id) ==
    Sorted({i \in Range(Flatten(pages)) : i > last_mail_id})

(***************************************************************************)
(* State.                                                                  *)
(***************************************************************************)
VARIABLES
    hasBridge,  \* whether AppState.bridges holds a bridge for Alice
    user, gm, kv, rooms, threads,
    subs, passes, effects,
    sent, mails, raised, closed, created, revoked,
    lastOp,     \* the operation the last step ran: its kind and its event id
    nsub,       \* events submitted so far
    mailbox,    \* the mails at the provider, by id
    pc,         \* where the sync cycle of the bridge stands
    client,     \* the mail client the running cycle iterates
    pages,      \* the pages the provider answered the cycle's listing with
    ids,        \* the new ids the cycle has still to fetch
    cur,        \* the id of the mail the cycle is delivering, 0 if none
    cycle,      \* the ids the cycle handed to delivery so far
    startLast,  \* user.last_mail_id when the cycle began
    delivered,  \* the ids of the mails delivered to their rooms, ever
    call,       \* the arguments of the c_send_msg call in progress
    attempts,   \* the contents that call has put to the chat server so far
    sendPc,     \* where the call stands: idle, put, wait, done, or the error raised
    input,      \* the value a naming function is applied to
    encoded,    \* the name made of it
    decoded,    \* what is read back from that name
    written,    \* the user last passed to Db.upsert_user, by matrix id
    tasks,      \* the ingestions of overlapping transactions: event, position, locals
    loop        \* the sync loop of the process and the bridge table it iterates

bridgeVars == <<hasBridge, user, gm, kv, rooms, threads, subs, passes, effects,
                sent, mails, raised, closed, created, revoked, lastOp, nsub>>

syncVars == <<mailbox, pc, client, pages, ids, cur, cycle, startLast, delivered>>

sendVars == <<call, attempts, sendPc>>

unitVars == <<input, encoded, decoded, written>>

taskVars == <<tasks, loop>>

vars == <<bridgeVars, syncVars, sendVars, unitVars, taskVars>>

\* the world at the start of an operation: nothing done yet
W ==
    [user |-> user, gm |-> gm, kv |-> kv, rooms |-> rooms, threads |-> threads,
     subs |-> subs, passes |-> passes, effects |-> effects,
     sent |-> <<>>, mails |-> <<>>, raised |-> None, closed |-> 0, created |-> 0,
     revoked |-> <<>>, returned |-> FALSE]

Commit(w) ==
    /\ user' = w.user
    /\ gm' = w.gm
    /\ kv' = w.kv
    /\ rooms' = w.rooms
    /\ threads' = w.threads
    /\ subs' = w.subs
    /\ passes' = w.passes
    /\ effects' = w.effects
    /\ sent' = w.sent
    /\ mails' = w.mails
    /\ raised' = w.raised
    /\ closed' = w.closed
    /\ created' = w.created
    /\ revoked' = w.revoked

InitBridge ==
    /\ hasBridge = FALSE
    /\ user = User(Alice)
    /\ gm = NoClient
    /\ kv = <<>>
    /\ rooms = InitRooms
    /\ threads = 0
    /\ subs = [id \in EventIds |-> 0]
    /\ passes = [id \in EventIds |-> 0]
    /\ effects = [id \in EventIds |-> 0]
    /\ sent = <<>>
    /\ mails = <<>>
    /\ raised = None
    /\ closed = 0
    /\ created = 0
    /\ revoked = <<>>
    /\ lastOp = [kind |-> "init", event_id |-> None, exchange |-> None]
    /\ nsub = 0

\* no c_send_msg call is followed attempt by attempt
NoCall == [room_id |-> None, body |-> None, html |-> None, info |-> None, as_bot |-> None]

IdleSend ==
    /\ call = NoCall
    /\ attempts = <<>>
    /\ sendPc = "idle"

\* no naming function is followed, and what Db was asked to write is not recorded
NoInput == [kind |-> None, value |-> None, owner |-> None]

\* no sync loop is followed
NoLoop ==
    [bridges |-> <<>>, active |-> {}, pc |-> None, it |-> 0, size |-> 0,
     due |-> {}, polled |-> {}, caught |-> 0, round |-> 0, last |-> None]

IdleUnit ==
    /\ input = NoInput
    /\ encoded = None
    /\ decoded = None
    /\ written = <<>>
    /\ tasks = <<>>
    /\ loop = NoLoop

IdleSync ==
    /\ pc = "idle"
    /\ client = NoClient
    /\ pages = <<>>
    /\ ids = <<>>
    /\ cur = 0
    /\ cycle = <<>>
    /\ startLast = 0

EndCycle ==
    /\ pc' = "idle"
    /\ client' = NoClient
    /\ pages' = <<>>
    /\ ids' = <<>>
    /\ cur' = 0
    /\ cycle' = <<>>
    /\ startLast' = 0

(***************************************************************************)
(* app/main.py: AppState.on_matrix_event, called for each event of a       *)
(* transaction.                                                            *)
(***************************************************************************)
on_matrix_event(w, event, o) ==
    IF event.sender = appservice_id \/ is_our_bot(event.sender) THEN w
    ELSE IF hasBridge THEN handle_matrix_event(w, event, o)
    ELSE handle_matrix_event(
             [w EXCEPT !.user = User(event.sender),
                       !.kv = upsert_user(w.kv, User(event.sender)),
                       !.gm = NoClient],
             event, o)

AllOk == [id \in EventIds |-> "ok"]

\* what the provider may answer while an event is handled: to the exchange of an
\* authorization code (asked for in waiting_for_token alone), and to the mail calls
\* made for each thread message, the replayed ones included
Oracles(event) ==
    CASE event.room_id = "!dm" ->
            {[exchange |-> x, gm |-> AllOk] :
                x \in IF user.auth_state = "waiting_for_token" THEN ExchangeOutcomes
                      ELSE {"ok"}}
      [] event.type = "member" ->
            {[exchange |-> "ok", gm |-> [AllOk EXCEPT !["$t1"] = g1, !["$t2"] = g2]] :
                g1 \in GmOutcomes, g2 \in GmOutcomes}
      [] OTHER ->
            {[exchange |-> "ok", gm |-> [AllOk EXCEPT ![event.event_id] = g]] :
                g \in GmOutcomes}

\* the chat server pushes an event of a room that exists
Submit(event, o) ==
    /\ nsub < MaxSubmits
    /\ event.room_id \in DOMAIN rooms
    /\ Commit(on_matrix_event(W, event, o))
    /\ hasBridge' = TRUE
    /\ lastOp' = [kind |-> "event", event_id |-> event.event_id, exchange |-> o.exchange]
    /\ nsub' = nsub + 1
    /\ UNCHANGED syncVars
    /\ UNCHANGED sendVars
    /\ UNCHANGED unitVars
    /\ UNCHANGED taskVars

(***************************************************************************)
(* The sync cycle of a bridge: sync_gmails and _sync (app/bridge.py) drive *)
(* the generator get_new_mails (app/gmail.py).  The cycle is suspended at  *)
(* each call of the provider and of the store; events are handled between. *)
(***************************************************************************)
SyncOp(kind) == lastOp' = [kind |-> kind, event_id |-> None, exchange |-> None]

\* a sync_gmails that logs the expiry and does not log the user out
ForcedLogoutBySync_logs_only ==
    /\ Commit(W)
    /\ EndCycle
    /\ SyncOp("sync_expired")
    /\ UNCHANGED <<hasBridge, nsub, mailbox, delivered>>
    /\ UNCHANGED sendVars
    /\ UNCHANGED unitVars
    /\ UNCHANGED taskVars

\* sync_gmails: except TokenExpiredException: await self._logout_user()
ForcedLogoutBySync ==
    /\ Commit(_logout_user(W))
    /\ EndCycle
    /\ SyncOp("sync_expired")
    /\ UNCHANGED <<hasBridge, nsub, mailbox, delivered>>
    /\ UNCHANGED sendVars
    /\ UNCHANGED unitVars
    /\ UNCHANGED taskVars

\* the end of _sync: self.user.token = self.gm.get_user_token(); upsert
SyncTail(w) ==
    IF w.gm = NoClient THEN Raise(w, "AttributeError")
    ELSE Upsert([w EXCEPT !.user.token = w.gm.token])

\* q = "after:{after} AND NOT label:sent AND NOT from:{email_id}", after being a day
\* ago: the mails of the last day; the provider may not have labelled the sent ones
Listed(box) == {i \in DOMAIN box : box[i].recent}

\* sync_loop calls sync_gmails: nothing to do without a client, else the listing
\* is requested
SyncBegin ==
    /\ pc = "idle"
    /\ hasBridge
    /\ Commit(W)
    /\ IF gm = NoClient
       THEN /\ SyncOp("sync_none")
            /\ UNCHANGED syncVars
       ELSE /\ SyncOp("sync_begin")
            /\ pc' = "list"
            /\ client' = gm
            /\ startLast' = user.last_mail_id
            /\ UNCHANGED <<mailbox, pages, ids, cur, cycle, delivered>>
    /\ UNCHANGED <<hasBridge, nsub>>
    /\ UNCHANGED sendVars
    /\ UNCHANGED unitVars
    /\ UNCHANGED taskVars

\* the listing answers, page by page; the later page may repeat ids
SyncList ==
    /\ pc = "list"
    /\ \/ \E rep \in SUBSET Listed(mailbox) :
            /\ pages' = <<Newest(Listed(mailbox)), Newest(rep)>>
            /\ ids' = _get_new_email_ids(pages', startLast)
            /\ pc' = "fetch"
            /\ Commit(W)
            /\ SyncOp("sync_list")
            /\ UNCHANGED <<hasBridge, nsub, mailbox, client, cur, cycle, startLast,
                           delivered>>
       \/ ForcedLogoutBySync
    /\ UNCHANGED sendVars
    /\ UNCHANGED unitVars
    /\ UNCHANGED taskVars

\* the generator fetches the next new mail and yields it unless the user sent it;
\* with none left _sync ends
SyncFetch ==
    /\ pc = "fetch"
    /\ \/ /\ ids = <<>>
          /\ Commit(SyncTail(W))
          /\ EndCycle
          /\ SyncOp("sync_end")
          /\ UNCHANGED <<hasBridge, nsub, mailbox, delivered>>
       \/ /\ ids # <<>>
          /\ ids' = Tail(ids)
          /\ Commit(W)
          /\ IF mailbox[Head(ids)].sender # client.email_id
             THEN /\ cur' = Head(ids)
                  /\ cycle' = Append(cycle, Head(ids))
                  /\ pc' = "deliver"
                  /\ SyncOp("sync_yield")
             ELSE /\ SyncOp("sync_skip")
                  /\ UNCHANGED <<cur, cycle, pc>>
          /\ UNCHANGED <<hasBridge, nsub, mailbox, client, pages, startLast, delivered>>
       \/ /\ ids # <<>>
          /\ ForcedLogoutBySync
    /\ UNCHANGED sendVars
    /\ UNCHANGED unitVars
    /\ UNCHANGED taskVars

\* self._get_room_id_from_thread(thread_id)
_get_room_id_from_thread(w, thread_id) ==
    IF w.user.cls # "LoggedInUser" THEN None
    ELSE resolve_room_alias(w, _generate_room_alias(w, thread_id))

\* RequestException.from_aio_resp: the exception of a chat call the server refused
\* holds the response and its JSON body, the error code under the key errcode
from_aio_resp(status, errcode) ==
    [nio |-> FALSE, status |-> status, body |-> [errcode |-> errcode]]

\* the exception _handle_mail raises for an outcome: every chat call of it goes
\* through _raw or c_send_msg, which raise from the aiohttp response
ChatError(outcome) ==
    IF outcome = "Forbidden" THEN from_aio_resp(403, "M_FORBIDDEN")
    ELSE from_aio_resp(500, "M_UNKNOWN")

\* RequestException.err_code: self.e.status_code of a nio error response, else
\* self.e[1].get('err_code')
err_code(e) ==
    IF e.nio THEN e.status_code
    ELSE IF "err_code" \in DOMAIN e.body THEN e.body["err_code"] ELSE None

is_forbidden(e) == err_code(e) = "M_FORBIDDEN"

\* the body of the loop of _sync for one mail: handled, its id becomes
\* user.last_mail_id; the error being is_forbidden, the room is told and the loop
\* left (returned); any other error is raised
_sync_body(w, mail, outcome) ==
    LET w1 == _handle_mail(w, mail, outcome)
    IN  IF w1.raised = None THEN [w1 EXCEPT !.user.last_mail_id = mail.gmail_id]
        ELSE IF w1.raised \in {"Forbidden", "RequestException"}
                /\ is_forbidden(ChatError(w1.raised))
        THEN LET room_id == _get_room_id_from_thread(w, mail.thread_id)
             IN  IF room_id = None THEN Raise(w1, "AssertionError")
                 ELSE SyncTail(Send([w1 EXCEPT !.raised = None, !.returned = TRUE],
                                    room_id, "permissions", None))
        ELSE w1

\* _handle_mail runs for the yielded mail; delivered, user.last_mail_id is set and
\* the save requested; a room forbidding it ends the cycle.  A room that does not
\* exist yet forbids nothing.
SyncDeliver ==
    /\ pc = "deliver"
    /\ \E outcome \in DeliverOutcomes :
        LET w1 == _sync_body(W, mailbox[cur], outcome)
        IN  /\ outcome = "Forbidden" =>
                   _get_room_id_from_thread(W, mailbox[cur].thread_id) # None
            /\ IF w1.raised = None /\ ~w1.returned
               THEN /\ Commit(w1)
                    /\ delivered' = delivered \cup {cur}
                    /\ pc' = "advance"
                    /\ SyncOp("sync_deliver")
                    /\ UNCHANGED <<client, pages, ids, cur, cycle, startLast>>
               ELSE /\ Commit(w1)
                    /\ EndCycle
                    /\ SyncOp(IF w1.returned THEN "sync_forbidden" ELSE "sync_error")
                    /\ UNCHANGED delivered
    /\ UNCHANGED <<hasBridge, nsub, mailbox>>
    /\ UNCHANGED sendVars
    /\ UNCHANGED unitVars
    /\ UNCHANGED taskVars

\* the save of the user with its new last_mail_id completes
SyncAdvance ==
    /\ pc = "advance"
    /\ Commit(Upsert(W))
    /\ pc' = "fetch"
    /\ cur' = 0
    /\ SyncOp("sync_advance")
    /\ UNCHANGED <<hasBridge, nsub, mailbox, client, pages, ids, cycle, startLast,
                   delivered>>
    /\ UNCHANGED sendVars
    /\ UNCHANGED unitVars
    /\ UNCHANGED taskVars

Sync == SyncBegin \/ SyncList \/ SyncFetch \/ SyncDeliver \/ SyncAdvance

Init == InitBridge /\ IdleSync /\ IdleSend /\ IdleUnit /\ mailbox = (1 :> MailOf(1)) /\ delivered = {}

Next ==
    \/ \E event \in Events \ {Reply} : \E o \in Oracles(event) : Submit(event, o)
    \/ Sync

Spec == Init /\ [][Next]_vars

(***************************************************************************)
(* The sync engine alone: a logged-in user, mails arriving, the process    *)
(* stopped and started again (app/main.py: start).                         *)
(***************************************************************************)
LoggedInAlice == logged_in(User(Alice), IssuedToken)

InitLoggedIn ==
    /\ hasBridge = TRUE
    /\ user = LoggedInAlice
    /\ gm = NewClient(LoggedInAlice.token, LoggedInAlice.email_address,
                      LoggedInAlice.email_name)
    /\ kv = upsert_user(<<>>, LoggedInAlice)
    /\ rooms = InitRooms
    /\ threads = 0
    /\ subs = [id \in EventIds |-> 0]
    /\ passes = [id \in EventIds |-> 0]
    /\ effects = [id \in EventIds |-> 0]
    /\ sent = <<>>
    /\ mails = <<>>
    /\ raised = None
    /\ closed = 0
    /\ created = 0
    /\ revoked = <<>>
    /\ lastOp = [kind |-> "init", event_id |-> None, exchange |-> None]
    /\ nsub = 0

\* a mail arrives at the provider, which gives it the next id
NewMail ==
    /\ Cardinality(DOMAIN mailbox) < MaxMails
    /\ mailbox' = mailbox @@ (Cardinality(DOMAIN mailbox) + 1 :>
                                MailOf(Cardinality(DOMAIN mailbox) + 1))
    /\ lastOp' = [kind |-> "new_mail", event_id |-> None, exchange |-> None]
    /\ UNCHANGED <<hasBridge, user, gm, kv, rooms, threads, subs, passes, effects,
                   sent, mails, raised, closed, created, revoked, nsub>>
    /\ UNCHANGED <<pc, client, pages, ids, cur, cycle, startLast, delivered>>
    /\ UNCHANGED sendVars
    /\ UNCHANGED unitVars
    /\ UNCHANGED taskVars

\* the process stops at any point and starts again, within the day or later:
\* AppState.start makes a bridge for each active user of the store, UserBridge.new
\* a client from its token
Crash ==
    LET u == get_user(kv, Alice)
    IN  /\ \E late \in BOOLEAN :
               mailbox' = IF late THEN [i \in DOMAIN mailbox |->
                                           [mailbox[i] EXCEPT !.recent = FALSE]]
                          ELSE mailbox
        /\ hasBridge' = (u.cls = "LoggedInUser")
        /\ user' = u
        /\ gm' = IF u.cls = "LoggedInUser" /\ u.token # NoToken
                 THEN NewClient(u.token, u.email_address, u.email_name)
                 ELSE NoClient
        /\ sent' = <<>>
        /\ mails' = <<>>
        /\ raised' = None
        /\ closed' = 0
        /\ created' = 0
        /\ revoked' = <<>>
        /\ EndCycle
        /\ lastOp' = [kind |-> "restart", event_id |-> None, exchange |-> None]
        /\ UNCHANGED <<kv, rooms, threads, subs, passes, effects, nsub, delivered>>
        /\ UNCHANGED sendVars
        /\ UNCHANGED unitVars
        /\ UNCHANGED taskVars

InitSync == InitLoggedIn /\ IdleSync /\ IdleSend /\ IdleUnit /\ mailbox = <<>> /\ delivered = {}

NextSync == NewMail \/ Sync \/ Crash

SpecSync == InitSync /\ [][NextSync]_vars

(***************************************************************************)
(* One mail from any sender to any recipients, delivered to its room and   *)
(* answered there.                                                         *)
(***************************************************************************)
Emails == {Me, "x@y.com", "z@y.com"}

Lists(S, n) == UNION {[1..k -> S] : k \in 0..n}

InitRoles ==
    /\ InitLoggedIn
    /\ IdleSync
    /\ IdleSend
    /\ IdleUnit
    /\ \E sender \in Emails : \E to, cc \in Lists(Emails, MaxRecipients) :
           mailbox = (1 :> Mail(1, "g1", sender, to, cc))
    /\ delivered = {}

NextRoles == Sync \/ \E o \in Oracles(Reply) : Submit(Reply, o)

SpecRoles == InitRoles /\ [][NextRoles]_vars

(***************************************************************************)
(* The naming functions alone: an address is made a name token and read    *)
(* back (app/utils.py), a thread id is made the alias of its room and read *)
(* back (app/bridge.py).                                                   *)
(***************************************************************************)
LocalParts == {"a", "a_at_b", "_at_", "a_at", "at_", "a.b", "a..b", ".a", "Hk8128", "a b", ""}

DomainParts ==
    {"x.com", "x", "at_x.com", "b-c.io", "-b.io", "x_at_y.io", "_at_.com", "x.c", "pm.ME",
     "x..com", "b-.io"}

Addresses ==
    {l \o "@" \o d : l \in LocalParts, d \in DomainParts} \cup {"a@b@x.com", "ax.com"}

ThreadIds ==
    {"g1", "17f3a9", "", "a.b", ".x", "t1.", "_gmail_bridge_x", "a_at_b", "#t", "t:jif.one"}

Owners == {"me@gmail.com", "a.b@x.co", "o_at_o@x.io"}

NameInputs ==
    {[kind |-> "email", value |-> e, owner |-> None] : e \in Addresses}
    \cup {[kind |-> "alias", value |-> t, owner |-> o] : t \in ThreadIds, o \in Owners}

NameOp(kind) ==
    /\ lastOp' = [kind |-> kind, event_id |-> None, exchange |-> None]
    /\ UNCHANGED <<hasBridge, user, gm, kv, rooms, threads, subs, passes, effects,
                   sent, mails, raised, closed, created, revoked, nsub>>
    /\ UNCHANGED syncVars
    /\ UNCHANGED sendVars
    /\ UNCHANGED <<input, written>>
    /\ UNCHANGED taskVars

\* email_sanitize(email), or _generate_room_alias(thread_id) of the owner's bridge
Encode ==
    /\ lastOp.kind = "init"
    /\ input # NoInput
    /\ encoded' = IF input.kind = "email" THEN email_sanitize(input.value)
                  ELSE _generate_room_alias([W EXCEPT !.user.email_address = input.owner],
                                            input.value)
    /\ UNCHANGED decoded
    /\ NameOp("encode")

\* email_desanitize(token), or _extract_alias_thread(alias)
Decode ==
    /\ lastOp.kind = "encode"
    /\ decoded' = IF input.kind = "email" THEN email_desanitize(encoded)
                  ELSE _extract_alias_thread(encoded)
    /\ UNCHANGED encoded
    /\ NameOp("decode")

InitNames ==
    /\ InitLoggedIn
    /\ IdleSync
    /\ IdleSend
    /\ mailbox = <<>>
    /\ delivered = {}
    /\ input \in NameInputs
    /\ encoded = None
    /\ decoded = None
    /\ written = <<>>
    /\ tasks = <<>>
    /\ loop = NoLoop

NextNames == Encode \/ Decode

SpecNames == InitNames /\ [][NextNames]_vars

(***************************************************************************)
(* Db alone (app/db.py, tests/test_db.py): users are written in any order. *)
(***************************************************************************)
\* the users the bridge makes of User(matrix_id): named, addressed, waiting for a
\* token, logged in, with a watermark, and logged out again
UsersOf(matrix_id) ==
    LET u == User(matrix_id)
        l == logged_in(u, IssuedToken)
    IN  {u,
         [u EXCEPT !.email_name = "Al"],
         [u EXCEPT !.email_address = "al@x.io"],
         [u EXCEPT !.auth_state = "waiting_for_token"],
         l,
         [l EXCEPT !.last_mail_id = 2],
         [l EXCEPT !.email_address = "al@x.io", !.email_name = "Al"],
         logged_out([l EXCEPT !.email_name = "Al", !.last_mail_id = 2])}

DbUsers == UsersOf(Alice) \cup UsersOf(Bob)

\* await db.upsert_user(user)
DbUpsert(u) ==
    /\ kv' = upsert_user(kv, u)
    /\ written' = [id \in DOMAIN written \cup {u.matrix_id} |->
                       IF id = u.matrix_id THEN u ELSE written[id]]
    /\ lastOp' = [kind |-> "upsert_user", event_id |-> None, exchange |-> None]
    /\ UNCHANGED <<hasBridge, user, gm, rooms, threads, subs, passes, effects,
                   sent, mails, raised, closed, created, revoked, nsub>>
    /\ UNCHANGED syncVars
    /\ UNCHANGED sendVars
    /\ UNCHANGED <<input, encoded, decoded>>
    /\ UNCHANGED taskVars

InitDb == InitBridge /\ IdleSync /\ IdleSend /\ IdleUnit /\ mailbox = <<>> /\ delivered = {}

NextDb == \E u \in DbUsers : DbUpsert(u)

SpecDb == InitDb /\ [][NextDb]_vars

(***************************************************************************)
(* The commands of the room a user shares with the bridge alone, typed by  *)
(* users in any auth state and, when logged in, holding any token.         *)
(***************************************************************************)
\* the tokens the provider may have issued for the mailbox me@gmail.com
Tokens ==
    {[access_token |-> a, refresh_token |-> r, email |-> IssuedToken.email] :
        a \in {"at1", "at2"}, r \in {"rt1", "rt2"}}

\* u with the token t in place of its own, when it has one
WithToken(u, t) == IF u.token = NoToken THEN u ELSE [u EXCEPT !.token = t]

DmUsers == {WithToken(u, t) : u \in UsersOf(Alice), t \in Tokens}

ClientOf(u) ==
    IF u.cls = "LoggedInUser" THEN NewClient(u.token, u.email_address, u.email_name)
    ELSE NoClient

InitDm ==
    /\ hasBridge = TRUE
    /\ user \in DmUsers
    /\ gm = ClientOf(user)
    /\ kv = upsert_user(<<>>, user)
    /\ rooms = InitRooms
    /\ threads = 0
    /\ subs = [id \in EventIds |-> 0]
    /\ passes = [id \in EventIds |-> 0]
    /\ effects = [id \in EventIds |-> 0]
    /\ sent = <<>>
    /\ mails = <<>>
    /\ raised = None
    /\ closed = 0
    /\ created = 0
    /\ revoked = <<>>
    /\ lastOp = [kind |-> "init", event_id |-> None, exchange |-> None]
    /\ nsub = 0
    /\ IdleSync
    /\ IdleSend
    /\ IdleUnit
    /\ mailbox = <<>>
    /\ delivered = {}

NextDm == \E event \in DmTexts : \E o \in Oracles(event) : Submit(event, o)

SpecDm == InitDm /\ [][NextDm]_vars

(***************************************************************************)
(* Overlapping transactions (app/main.py: transaction is one task per HTTP *)
(* request): two batches of thread-room messages are ingested by the       *)
(* bridge of a logged-in user, each suspended at the awaits of             *)
(* handle_matrix_event and _handle_thread_msg, where the other may run.    *)
(***************************************************************************)
Batches == {<<EventOf("$t1")>>, <<EventOf("$t2")>>, <<EventOf("$t1"), EventOf("$t2")>>}

\* a task at the start of the first event of its batch
NewTask(batch) == [batch |-> batch, pc |-> "exists", room_thread |-> None, thread_id |-> None]

TaskEvent(t) == Head(tasks[t].batch)

TaskOp(t, kind) ==
    /\ lastOp' = [kind |-> kind, event_id |-> TaskEvent(t).event_id, exchange |-> None]
    /\ UNCHANGED <<hasBridge, nsub>>
    /\ UNCHANGED syncVars
    /\ UNCHANGED sendVars
    /\ UNCHANGED <<input, encoded, decoded, written>>
    /\ UNCHANGED loop

\* if await self.db.event_exists(event.event_id): return
TaskExists(t) ==
    /\ tasks[t].pc = "exists"
    /\ LET id == TaskEvent(t).event_id
           w0 == [W EXCEPT !.subs[id] = @ + 1]
       IN  IF event_exists(kv, id)
           THEN /\ Commit(w0)
                /\ tasks' = [tasks EXCEPT ![t] =
                                 IF Len(@.batch) > 1 THEN NewTask(Tail(@.batch))
                                 ELSE [@ EXCEPT !.pc = "done"]]
           ELSE /\ Commit([w0 EXCEPT !.passes[id] = @ + 1])
                /\ tasks' = [tasks EXCEPT ![t].pc = "thread"]
    /\ TaskOp(t, "task_exists")

\* room_thread = await self._get_thread_from_room(room_id)
TaskThread(t) ==
    /\ tasks[t].pc = "thread"
    /\ LET room_thread == _get_thread_from_room(W, TaskEvent(t).room_id)
       IN  IF room_thread = "AssertionError"
           THEN /\ Commit(Raise(W, "AssertionError"))
                /\ tasks' = [tasks EXCEPT ![t].pc = "raised"]
           ELSE /\ Commit(W)
                /\ tasks' = [tasks EXCEPT ![t].room_thread = room_thread, ![t].pc = "mail"]
    /\ TaskOp(t, "task_thread")

\* await self.gm.start_new_thread(...) or await self.gm.reply_to_thread(...)
TaskMail(t) ==
    /\ tasks[t].pc = "mail"
    /\ LET event == TaskEvent(t)
           room_id == event.room_id
       IN  IF gm = NoClient
           THEN /\ Commit(Send(W, room_id, "help", None))
                /\ tasks' = [tasks EXCEPT ![t].pc = "record"]
           ELSE IF tasks[t].room_thread = None
           THEN /\ Commit(SendMail([W EXCEPT !.threads = @ + 1], event, "new",
                                    NewThreadId(threads + 1), ThreadTo(W, room_id),
                                    ThreadCc(W, room_id), get_room_name(W, room_id)))
                /\ tasks' = [tasks EXCEPT ![t].thread_id = NewThreadId(threads + 1),
                                          ![t].pc = "alias"]
           ELSE /\ Commit(SendMail(W, event, "reply", tasks[t].room_thread,
                                    ThreadTo(W, room_id), ThreadCc(W, room_id), None))
                /\ tasks' = [tasks EXCEPT ![t].pc = "record"]
    /\ TaskOp(t, "task_mail")

\* await self.nc.set_room_alias(room_id, new_alias)
TaskAlias(t) ==
    /\ tasks[t].pc = "alias"
    /\ Commit(set_room_alias(W, TaskEvent(t).room_id,
                             _generate_room_alias(W, tasks[t].thread_id)))
    /\ tasks' = [tasks EXCEPT ![t].pc = "record"]
    /\ TaskOp(t, "task_alias")

\* await self.db.add_event(event.event_id), and the next event of the batch
TaskRecord(t) ==
    /\ tasks[t].pc = "record"
    /\ Commit([W EXCEPT !.kv = add_event(kv, TaskEvent(t).event_id)])
    /\ tasks' = [tasks EXCEPT ![t] = IF Len(@.batch) > 1 THEN NewTask(Tail(@.batch))
                                      ELSE [@ EXCEPT !.pc = "done"]]
    /\ TaskOp(t, "task_record")

InitOverlap ==
    /\ InitLoggedIn
    /\ IdleSync
    /\ IdleSend
    /\ mailbox = <<>>
    /\ delivered = {}
    /\ input = NoInput
    /\ encoded = None
    /\ decoded = None
    /\ written = <<>>
    /\ \E b1, b2 \in Batches : tasks = <<NewTask(b1), NewTask(b2)>>
    /\ loop = NoLoop

NextOverlap ==
    \E t \in 1..2 :
        TaskExists(t) \/ TaskThread(t) \/ TaskMail(t) \/ TaskAlias(t) \/ TaskRecord(t)

SpecOverlap == InitOverlap /\ [][NextOverlap]_vars

(***************************************************************************)
(* The replay of missed events: a logged-in user, and a room whose history *)
(* the chat server shows the bridge in full, in part, or only one event at *)
(* a time; the invite of a virtual account starts the replay.              *)
(***************************************************************************)
HistRoom(history) ==
    [members |-> {Alice, BotX}, users |-> (Alice :> 100 @@ BotX :> 0),
     users_default |-> 0, aliases |-> <<>>, name |-> "plans", history |-> history]

\* /sync never returns an event the bridge may not read
Histories ==
    {h \in {History(v, s) : v \in 1..5, s \in 1..5} : h.visible_from <= h.sync_from}

InitReplay ==
    /\ hasBridge = TRUE
    /\ user = LoggedInAlice
    /\ gm = NewClient(LoggedInAlice.token, LoggedInAlice.email_address,
                      LoggedInAlice.email_name)
    /\ kv = upsert_user(<<>>, LoggedInAlice)
    /\ \E history \in Histories : rooms = InitRooms @@ ("!hist" :> HistRoom(history))
    /\ threads = 0
    /\ subs = [id \in EventIds |-> 0]
    /\ passes = [id \in EventIds |-> 0]
    /\ effects = [id \in EventIds |-> 0]
    /\ sent = <<>>
    /\ mails = <<>>
    /\ raised = None
    /\ closed = 0
    /\ created = 0
    /\ revoked = <<>>
    /\ lastOp = [kind |-> "init", event_id |-> None, exchange |-> None]
    /\ nsub = 0
    /\ IdleSync
    /\ IdleSend
    /\ IdleUnit
    /\ mailbox = <<>>
    /\ delivered = {}

\* the events of the room the transport delivers: those nio parses
LiveHistEvents == {e \in HistEvents : e.type # "bad"}

\* the provider refuses at most one of the mail calls made while an event is handled
ReplayOracles ==
    {[exchange |-> "ok", gm |-> [AllOk EXCEPT ![id] = g]] :
        id \in {"$h1", "$h2", "$h3"}, g \in {"ok", "SendError"}}

NextReplay == \E event \in LiveHistEvents : \E o \in ReplayOracles : Submit(event, o)

SpecReplay == InitReplay /\ [][NextReplay]_vars

(***************************************************************************)
(* AppserviceClient.c_send_msg (app/nio_client.py), attempt by attempt: a  *)
(* content is put to the chat server, the server answers, and an answer    *)
(* 413 M_TOO_LARGE makes the call call itself with other arguments.        *)
(***************************************************************************)
\* s repeated n times
RECURSIVE Repeat(_, _)
Repeat(s, n) ==
    IF n = 0 THEN ""
    ELSE LET h == Repeat(s, n \div 2)
         IN  IF n % 2 = 0 THEN h \o h ELSE h \o h \o s

\* str.split(): the words between the blanks
RECURSIVE Words(_)
Words(s) ==
    IF Len(s) = 0 THEN <<>>
    ELSE IF Len(s) = 1 THEN (IF s = " " THEN <<>> ELSE <<s>>)
    ELSE LET mid == Len(s) \div 2
             l == Words(SubSeq(s, 1, mid))
             r == Words(SubSeq(s, mid + 1, Len(s)))
         IN  IF SubSeq(s, mid, mid) # " " /\ SubSeq(s, mid + 1, mid + 1) # " "
             THEN SubSeq(l, 1, Len(l) - 1) \o <<l[Len(l)] \o r[1]>> \o Tail(r)
             ELSE l \o r

\* ' '.join(words)
RECURSIVE Join(_)
Join(words) ==
    IF Len(words) = 0 THEN ""
    ELSE IF Len(words) = 1 THEN words[1]
    ELSE LET mid == Len(words) \div 2
         IN  Join(SubSeq(words, 1, mid)) \o " " \o Join(SubSeq(words, mid + 1, Len(words)))

\* the largest k in lo..hi for which the first k words and the placeholder fit
\* the width, lo - 1 if there is none
RECURSIVE FitWords(_, _, _, _, _)
FitWords(words, room, lo, hi, found) ==
    IF lo > hi THEN found
    ELSE LET k == (lo + hi) \div 2
         IN  IF Len(Join(SubSeq(words, 1, k))) <= room
             THEN FitWords(words, room, k + 1, hi, k)
             ELSE FitWords(words, room, lo, k - 1, found)

\* textwrap.shorten(text, width, placeholder): the blanks collapsed; what does not
\* fit the width is cut at a word and the placeholder appended
shorten(text, width, placeholder) ==
    LET words == Words(text)
        collapsed == Join(words)
    IN  IF Len(collapsed) <= width THEN collapsed
        ELSE LET k == FitWords(words, width - Len(placeholder), 1, Len(words), 0)
             IN  IF k = 0 THEN LStrip(placeholder)
                 ELSE Join(SubSeq(words, 1, k)) \o placeholder

allowed_width == 1000

TrimmedMarker == " [... trimmed due to matrix limit]"

\* the content of the PUT .../send/m.room.message/{txn} request, and its user
Content(c) ==
    [room_id |-> c.room_id, user |-> c.as_bot, info |-> c.info, body |-> c.body,
     msgtype |-> "m.text",
     format |-> IF c.html # None THEN "org.matrix.custom.html" ELSE None,
     formatted_body |-> c.html]

\* a c_send_msg that cuts the body on the first rejection already
c_send_msg_too_large_cuts_first(c) ==
    [call |-> [c EXCEPT !.html = None,
                        !.body = shorten(c.body, allowed_width, TrimmedMarker)],
     pc |-> "put"]

\* c_send_msg on the answer 413 M_TOO_LARGE: the call it makes next, or the
\* assertion that fails
c_send_msg_too_large(c) ==
    IF c.html # None
    THEN [call |-> [c EXCEPT !.html = None], pc |-> "put"]
    ELSE IF ~(Len(c.body) <= allowed_width)
    THEN [call |-> c, pc |-> "AssertionError"]
    ELSE [call |-> [c EXCEPT !.body = shorten(c.body, allowed_width, TrimmedMarker)],
          pc |-> "put"]

\* the calls followed: a short body, one with blanks to collapse, one as long as
\* the width, one longer; with and without html, metadata and virtual account
Bodies ==
    {"hello", " two  blanks ", Repeat("word ", 199) \o "last.", Repeat("lorem ipsum ", 100)}

SendCalls ==
    {[room_id |-> "!dm", body |-> b, html |-> h, info |-> i, as_bot |-> a] :
        b \in Bodies, h \in {None, "<b>mail</b>"},
        i \in {None, "mail_id=1"}, a \in {None, BotX}}

SendOp(kind) ==
    /\ lastOp' = [kind |-> kind, event_id |-> None, exchange |-> None]
    /\ UNCHANGED <<hasBridge, user, gm, kv, rooms, threads, subs, passes, effects,
                   sent, mails, raised, closed, created, revoked, nsub>>
    /\ UNCHANGED syncVars
    /\ UNCHANGED unitVars
    /\ UNCHANGED taskVars

\* r = await self._raw("PUT", ..., user=as_bot, data=content, strict=False)
SendPut ==
    /\ sendPc = "put"
    /\ Len(attempts) < MaxAttempts
    /\ attempts' = Append(attempts, Content(call))
    /\ sendPc' = "wait"
    /\ SendOp("send_put")
    /\ UNCHANGED call

\* r.ok: the event id is returned
SendAccepted ==
    /\ sendPc = "wait"
    /\ sendPc' = "done"
    /\ SendOp("send_ok")
    /\ UNCHANGED <<call, attempts>>

\* r.status == 413 and errcode == "M_TOO_LARGE"
SendTooLarge ==
    /\ sendPc = "wait"
    /\ call' = c_send_msg_too_large(call).call
    /\ sendPc' = c_send_msg_too_large(call).pc
    /\ SendOp("send_too_large")
    /\ UNCHANGED attempts

\* not r.ok: raise RequestException
SendRefused ==
    /\ sendPc = "wait"
    /\ sendPc' = "RequestException"
    /\ SendOp("send_refused")
    /\ UNCHANGED <<call, attempts>>

InitSend ==
    /\ InitBridge
    /\ IdleSync
    /\ mailbox = <<>>
    /\ delivered = {}
    /\ IdleUnit
    /\ call \in SendCalls
    /\ attempts = <<>>
    /\ sendPc = "put"

NextSend == SendPut \/ SendAccepted \/ SendTooLarge \/ SendRefused

SpecSend == InitSend /\ [][NextSend]_vars

(***************************************************************************)
(* Properties.                                                             *)
(***************************************************************************)
UserKey == "u:" \o Alice

HasRecord == UserKey \in DOMAIN kv

Msg(room_id, kind, arg) == [room |-> room_id, kind |-> kind, arg |-> arg]

HelpOnly == <<Msg("!dm", "help", None)>>

SideCommandIds == {"$status", "$name", "$email"}

\* the step handles the DM text e: it is submitted and gets past the ledger
DmTextStep(e) ==
    /\ nsub' = nsub + 1
    /\ lastOp'.kind = "event"
    /\ lastOp'.event_id = e.event_id
    /\ passes'[e.event_id] = passes[e.event_id] + 1

\* a forced logout has just run: from the sync cycle, or from thread handling
ForcedLogoutRan ==
    \/ lastOp.kind = "sync_expired"
    \/ lastOp.kind = "event" /\ \E i \in 1..Len(sent) : sent[i].kind = "expired"

\* C1 as stated: whatever is submitted, and however often, no event id gets past
\* the ledger check more than once, and none causes more than one mail to be sent
C1_OnePassOneEffect ==
    \A id \in EventIds : passes[id] <= 1 /\ effects[id] <= 1

\* C2: in every reachable state the user in memory and the stored user have a
\* token exactly if their auth_state is logged_in, and a logged_in user has an
\* email address
TokenIffLoggedIn(u) ==
    /\ (u.token # NoToken) <=> (u.auth_state = "logged_in")
    /\ u.auth_state = "logged_in" => u.email_address # None

C2_TokenIffLoggedIn ==
    /\ TokenIffLoggedIn(user)
    /\ HasRecord => TokenIffLoggedIn(kv[UserKey])

\* a forced logout from the sync cycle left the user logged out, in memory and stored
C2_Witness ==
    /\ lastOp.kind = "sync_expired"
    /\ raised = None
    /\ user.auth_state = "logged_out" /\ user.token = NoToken
    /\ HasRecord /\ kv[UserKey].auth_state = "logged_out" /\ kv[UserKey].token = NoToken

StartedLogin ==
    /\ user'.auth_state = "waiting_for_token"
    /\ kv'[UserKey] = UserJson(user')
    /\ sent' = <<Msg("!dm", "url", None)>>

\* C3 as stated: a DM text handled in logged_out changes the auth state only if it
\* is start, which sends the URL and saves waiting_for_token; every other text
\* leaves logged_out and is answered with the help text alone
C3_Original ==
    [][\A e \in DmTexts :
          (DmTextStep(e) /\ user.auth_state = "logged_out") =>
              IF e.event_id = "$start" THEN StartedLogin
              ELSE user'.auth_state = "logged_out" /\ sent' = HelpOnly]_vars

\* C3 amended: the same for the texts that are no side command (status, name, email);
\* a side command leaves logged_out as well, but has its own answer
C3_OnlyStartLeavesLoggedOut ==
    [][\A e \in DmTexts :
          (DmTextStep(e) /\ user.auth_state = "logged_out") =>
              IF e.event_id = "$start" THEN StartedLogin
              ELSE /\ user'.auth_state = "logged_out"
                   /\ e.event_id \notin SideCommandIds => sent' = HelpOnly]_vars

\* start was handled in logged_out
C3_Witness ==
    /\ lastOp.event_id = "$start"
    /\ passes["$start"] = 1
    /\ user.auth_state = "waiting_for_token"
    /\ sent = <<Msg("!dm", "url", None)>>

LoginCompleted ==
    /\ user'.auth_state = "logged_in"
    /\ user'.token = IssuedToken
    /\ user'.email_address = IssuedToken.email
    /\ kv'[UserKey] = UserJson(user')
    /\ gm = NoClient /\ gm' # NoClient /\ gm'.token = IssuedToken
    /\ created' = 1
    /\ sent' = <<Msg("!dm", "login_ok", IssuedToken.email)>>

LoginRejected ==
    /\ user'.auth_state = "waiting_for_token"
    /\ user'.token = NoToken
    /\ kv'[UserKey].token = NoToken
    /\ gm' = NoClient
    /\ sent' = <<Msg("!dm", "error", lastOp'.exchange)>>

\* C4 as stated: a DM text handled in waiting_for_token is exchanged as a code; the
\* exchange succeeding, the user is logged_in with token and address stored and
\* saved, a client is created and the confirmation names the address; failing, an
\* error is sent, no token stored, the state stays waiting_for_token
C4_Original ==
    [][\A e \in DmTexts :
          (DmTextStep(e) /\ user.auth_state = "waiting_for_token") =>
              IF lastOp'.exchange = "ok" THEN LoginCompleted ELSE LoginRejected]_vars

\* C4 amended: the same for the texts that are no side command; a side command is
\* not exchanged and leaves waiting_for_token without a token
C4_TextIsExchangedAsCode ==
    [][\A e \in DmTexts :
          (DmTextStep(e) /\ user.auth_state = "waiting_for_token") =>
              IF e.event_id \in SideCommandIds
              THEN user'.auth_state = "waiting_for_token" /\ user'.token = NoToken
              ELSE IF lastOp'.exchange = "ok" THEN LoginCompleted ELSE LoginRejected]_vars

\* a code was exchanged and the user is logged in
C4_Witness ==
    /\ lastOp.event_id = "$code"
    /\ lastOp.exchange = "ok"
    /\ user.auth_state = "logged_in"
    /\ sent = <<Msg("!dm", "login_ok", IssuedToken.email)>>

LogoutCompleted ==
    /\ user'.auth_state = "logged_out"
    /\ user'.token = NoToken
    /\ user'.email_address = None
    /\ kv'[UserKey] = UserJson(user')
    /\ gm # NoClient /\ gm' = NoClient
    /\ closed' = 1

C6_ForcedLogoutIdempotent ==
    ForcedLogoutRan => raised = None /\ user.auth_state = "logged_out"

PersistedWatermark == IF HasRecord THEN kv[UserKey].last_mail_id ELSE NoMailId

\* the part that holds whenever the process stops: the stored last_mail_id is the
\* id of a delivered mail, never decreases, and the undelivered mails that a listing
\* still returns (those of the last day) are newer than it
ListedMailsNotSkipped ==
    /\ [](/\ PersistedWatermark # NoMailId => PersistedWatermark \in delivered
          /\ \A id \in Listed(mailbox) :
                (id \notin delivered /\ mailbox[id].sender # Me) => id > PersistedWatermark)
    /\ [][PersistedWatermark' >= PersistedWatermark]_vars

\* C7: the stored last_mail_id is the id of a delivered mail, never decreases, and
\* every mail of another sender that is not delivered yet is newer than it, so
\* that the next listing returns it, whenever the process stopped and started again
C7_WatermarkFollowsDelivery ==
    /\ [](/\ PersistedWatermark # NoMailId => PersistedWatermark \in delivered
          /\ \A id \in DOMAIN mailbox :
                (id \notin delivered /\ mailbox[id].sender # Me) => id > PersistedWatermark)
    /\ [][PersistedWatermark' >= PersistedWatermark]_vars

\* C8: the ids one cycle hands to delivery are strictly ascending, each above
\* user.last_mail_id as the cycle found it
C8_CycleAscending ==
    \A i \in 1..Len(cycle) :
        /\ cycle[i] > startLast
        /\ i > 1 => cycle[i - 1] < cycle[i]

\* a cycle that began above a stored id, was listed ids twice, and handed two
\* mails to delivery
C8_Witness ==
    /\ startLast > NoMailId
    /\ Len(pages) > 1 /\ Len(pages[2]) > 0
    /\ Len(cycle) > 1

Participants(m) == Range(m.to) \cup Range(m.cc) \cup {m.sender}

ExpectedRole(m, e) == IF e \in Range(m.to) \cup {m.sender} THEN 0 ELSE -1

\* the roles of the virtual accounts of a room
BotRoles(room_id) ==
    [b \in {x \in DOMAIN rooms[room_id].users : is_our_bot(x)} |-> rooms[room_id].users[b]]

\* C9: the room made for a mail has one role per participant other than the owner:
\* 0 for the sender and the to-recipients, -1 for those in carbon copy alone; the
\* owner has no virtual account in the room
C9_RoleMap ==
    lastOp.kind = "sync_deliver" =>
        LET m == mailbox[1]
            others == Participants(m) \ {Me}
            roles == BotRoles(MailRoom)
        IN  /\ DOMAIN roles = {_generate_bot_mxid(e) : e \in others}
            /\ Cardinality(DOMAIN roles) = Cardinality(others)
            /\ \A e \in others : roles[_generate_bot_mxid(e)] = ExpectedRole(m, e)
            /\ _generate_bot_mxid(Me) \notin rooms[MailRoom].members

\* a delivered mail to the owner, with one address both sender and in carbon copy
\* and another in carbon copy alone
C9_Witness ==
    /\ lastOp.kind = "sync_deliver"
    /\ Me \in Range(mailbox[1].to)
    /\ mailbox[1].sender \in Range(mailbox[1].cc)
    /\ \E e \in Range(mailbox[1].cc) : e # Me /\ ExpectedRole(mailbox[1], e) = -1

\* C10 as stated: the mail sent for an answer in the room of a mail goes to the
\* addresses the mail gave role 0 and in carbon copy to those it gave role -1
C10_RoundTrip ==
    (lastOp.kind = "event" /\ lastOp.event_id = "$r1" /\ Len(mails) = 1) =>
        LET m == mailbox[1]
            others == Participants(m) \ {Me}
        IN  /\ mails[1].to = {e \in others : ExpectedRole(m, e) = 0}
            /\ mails[1].cc = {e \in others : ExpectedRole(m, e) = -1}

\* the step submits event e and e gets past the ledger check
HandledStep(e) == DmTextStep(e)

\* C11: a message typed by the logged-in user in the thread room, the room having
\* a thread and the roles {x: 0, z: -1}, and handled without error, sends one mail
\* in that thread, to x and the user's own address, with z in carbon copy
C11_ReplyRecipients ==
    [][(/\ HandledStep(EventOf("$t2"))
        /\ user.auth_state = "logged_in" /\ user'.auth_state = "logged_in"
        /\ raised' = None
        /\ _get_thread_from_room(W, "!thr") = "t1"
        /\ BotRoles("!thr") = (BotX :> 0 @@ BotZ :> -1)
        /\ {m \in rooms["!thr"].members : is_our_bot(m)} = {BotX, BotZ})
       => /\ Len(mails') = 1
          /\ mails'[1].kind = "reply" /\ mails'[1].thread_id = "t1"
          /\ {"x@y.com", Me} \subseteq mails'[1].to
          /\ "z@y.com" \in mails'[1].cc]_vars

\* C12: a delivered mail with n attachments is n attachment messages in the mail's
\* attachment order and then one text message, all in the room of its thread, sent
\* as the sender's virtual account and carrying the mail's to, cc and id
C12_AttachmentsThenBody ==
    lastOp.kind = "sync_deliver" =>
        LET mail == mailbox[cur]
            n == Len(mail.attachment)
            room_id == resolve_room_alias(W, _generate_room_alias(W, mail.thread_id))
            Carries(msg) ==
                /\ msg.room = room_id
                /\ msg.arg.as_bot = _generate_bot_mxid(mail.sender)
                /\ msg.arg.info.to = mail.to /\ msg.arg.info.cc = mail.cc
                /\ msg.arg.info.mail_id = mail.gmail_id
        IN  /\ Len(sent) = n + 1
            /\ \A i \in 1..n :
                   /\ sent[i].kind = "attachment"
                   /\ sent[i].arg.body = mail.attachment[i].name
                   /\ Carries(sent[i])
            /\ sent[n + 1].kind = "mail" /\ Carries(sent[n + 1])

\* a mail with two attachments was delivered, and one with none
C12_Witness ==
    /\ lastOp.kind = "sync_deliver"
    /\ Len(mailbox[cur].attachment) = 2
    /\ Len(sent) = 3
    /\ 1 \in delivered

\* C13: the content put after the rejection of a content with html is the same
\* content without the html: same room, sender, metadata, and the body uncut
C13_RetryWithoutHtml ==
    (Len(attempts) >= 2 /\ attempts[1].formatted_body # None) =>
        attempts[2] = [attempts[1] EXCEPT !.format = None, !.formatted_body = None]

\* a body longer than the width was put again with its html removed
C13_Witness ==
    /\ Len(attempts) >= 2
    /\ attempts[1].formatted_body # None
    /\ Len(attempts[1].body) > allowed_width
    /\ attempts[1].info # None /\ attempts[1].user # None

EndsWith(s, p) == Len(s) >= Len(p) /\ SubSeq(s, Len(s) - Len(p) + 1, Len(s)) = p

\* C14: the content without html being rejected as too large, a content is put
\* next, without html; of a body longer than the width it holds at most the width,
\* the marker at its end; a body within the width gets no marker
C14_TruncatedRetry ==
    [][(sendPc = "wait" /\ call.html = None /\ lastOp'.kind = "send_too_large") =>
          /\ sendPc' = "put"
          /\ call'.html = None
          /\ Len(call'.body) <= allowed_width
          /\ Len(call.body) > allowed_width => EndsWith(call'.body, TrimmedMarker)
          /\ Len(call.body) <= allowed_width => ~EndsWith(call'.body, TrimmedMarker)]_vars

\* C15: one call puts at most three contents
C15_AtMostThreeAttempts == Len(attempts) <= 3

(***************************************************************************)
(* C16: the replay of missed events.                                       *)
(***************************************************************************)
HistIds == {e.event_id : e \in HistEvents}

Parsable(events) == SelectSeq(events, LAMBDA e : e.type # "bad")

\* the invite of the virtual account is handled, and not dropped as a duplicate
InviteStep ==
    /\ lastOp'.kind = "event"
    /\ lastOp'.event_id = "$inv2"
    /\ passes'["$inv2"] = passes["$inv2"] + 1

\* the step submits the first k events of expected to ingestion, and no other
Replayed(expected, k) ==
    \A id \in HistIds \ {"$inv2"} :
        subs'[id] - subs[id] =
            IF \E i \in 1..k : expected[i].event_id = id THEN 1 ELSE 0

AfterInvite == SubSeq(HistTimeline, 3, Len(HistTimeline))

\* the invite is at index 2 of the timeline and the join at index 6
BetweenInviteAndJoin ==
    SelectSeq(SubSeq(HistTimeline, 3, 5), LAMBDA e : e.type \in {"text", "media"})

ValidAddresses == {e \in Addresses : is_valid_email(e)}

\* C17: a valid address made a token is read back as itself, and no other valid
\* address makes the same token
C17_EmailRoundTrip ==
    (input.kind = "email" /\ is_valid_email(input.value))
    => /\ lastOp.kind = "decode" => decoded = input.value
       /\ lastOp.kind \in {"encode", "decode"}
            => \A e \in ValidAddresses : email_sanitize(e) = encoded => e = input.value

\* an address whose local part holds the placeholder has been read back
C17_Witness ==
    /\ input.kind = "email"
    /\ input.value = "a_at_b@b-c.io"
    /\ is_valid_email(input.value)
    /\ encoded = "a_at_b_at_b-c.io"
    /\ lastOp.kind = "decode"
    /\ decoded = input.value

\* C18: the thread read from the alias made for a thread id without a dot is that
\* thread id, whoever owns the mailbox
C18_AliasRoundTrip ==
    (input.kind = "alias" /\ "." \notin Chars(input.value) /\ lastOp.kind = "decode")
    => decoded = input.value

\* the alias of a thread of the mailbox a.b@x.co has been read back
C18_Witness ==
    /\ input.kind = "alias"
    /\ input.value = "17f3a9"
    /\ input.owner = "a.b@x.co"
    /\ encoded = "#_gmail_bridge_17f3a9.a.b_at_x.co:jif.one"
    /\ lastOp.kind = "decode"
    /\ decoded = "17f3a9"

(***************************************************************************)
(* C19: the user store.                                                    *)
(***************************************************************************)
Carol == "@carol:jif.one"

LastWritten(id) == IF id \in DOMAIN written THEN written[id] ELSE User(id)

ActiveWritten == {written[id] : id \in {i \in DOMAIN written : written[i].auth_state = "logged_in"}}

\* C19: get_user returns the user last written for an id, and the default logged-out
\* user, writing nothing, for an id never written; all_active_users returns, once
\* each, the users last written as logged in
C19_StoreRoundTrip ==
    /\ \A id \in {Alice, Bob, Carol} : get_user(kv, id) = LastWritten(id)
    /\ get_user(kv, Carol).auth_state = "logged_out"
    /\ ("u:" \o Carol) \notin DOMAIN kv
    /\ LET active == all_active_users(kv)
       IN  /\ {active[i] : i \in 1..Len(active)} = ActiveWritten
           /\ Len(active) = Cardinality(ActiveWritten)

\* Bob was written first, logged out with a name and a watermark; Alice is logged in
C19_Witness ==
    /\ _all_user_ids(kv) = <<Bob, Alice>>
    /\ DOMAIN written = {Alice, Bob}
    /\ written[Alice] = logged_in(User(Alice), IssuedToken)
    /\ written[Bob].auth_state = "logged_out"
    /\ written[Bob].email_name = "Al"
    /\ Len(all_active_users(kv)) = 1

(***************************************************************************)
(* C20: the ledger after a dispatch that raised.                           *)
(***************************************************************************)
Ledger(store) == {id \in EventIds : event_exists(store, id)}

\* the event handed to the bridge raised an error
RaisingStep == lastOp'.kind = "event" /\ raised' # None

\* C20 as stated: a dispatch that raises leaves the ledger as it was
C20_LedgerUnchanged == [][RaisingStep => Ledger(kv') = Ledger(kv)]_vars

\* C20, amended: a dispatch that raises does not record the id of its event, and
\* adds to the ledger nothing but the ids of the events it replayed before the
\* error; and an event whose id is not in the ledger is dispatched when delivered
C20_RaisedNotRecorded ==
    [][/\ RaisingStep
          => /\ lastOp'.event_id \notin Ledger(kv')
             /\ Ledger(kv) \subseteq Ledger(kv')
             /\ \A id \in Ledger(kv') \ Ledger(kv) : passes'[id] = passes[id] + 1
       /\ (lastOp'.kind = "event" /\ lastOp'.event_id \notin Ledger(kv))
          => passes'[lastOp'.event_id] = passes[lastOp'.event_id] + 1]_vars

\* the invite raised at its first delivery, after replaying $t1, and was dispatched
\* again at its second
C20_Witness ==
    /\ nsub = 4
    /\ subs["$inv"] = 2
    /\ passes["$inv"] = 2
    /\ subs["$t1"] = 2
    /\ passes["$t1"] = 1
    /\ "$t1" \in Ledger(kv)

(***************************************************************************)
(* C21: the reply to status.                                               *)
(***************************************************************************)
\* status is handled, and not dropped as a duplicate
StatusStep ==
    /\ lastOp'.kind = "event"
    /\ lastOp'.event_id = "$status"
    /\ passes'["$status"] = passes["$status"] + 1

\* what _handle_dm sends for status when the user holds the token t
StatusReplyWith(t) ==
    _handle_dm([W EXCEPT !.user = WithToken(user, t)], EventOf("$status"), "ok").sent

StatusHidesToken == \A t \in Tokens : StatusReplyWith(t) = sent'

OurAliases(room_id) == SelectSeq(rooms[room_id].aliases, is_our_alias)

\* C22: no room carries more than one alias of the bridge's namespace
C22_OneAliasPerRoom == \A room_id \in DOMAIN rooms : Len(OurAliases(room_id)) <= 1

\* C23: an event delivered in two overlapping transactions causes one mail-side
\* effect, and no more
C23_OneEffectPerEvent == \A id \in EventIds : effects[id] <= 1

(***************************************************************************)
(* C24: what the ledger holds after an ingestion that completed.           *)
(***************************************************************************)
\* the ingestion of the event handed to the bridge completed without raising
CompletedStep == lastOp'.kind = "event" /\ raised' = None

\* the event handed to the bridge was in the ledger already
RedeliveredStep == lastOp'.kind = "event" /\ lastOp'.event_id \in Ledger(kv)

\* C24: an ingestion that completes without raising leaves the id of its event in
\* the ledger, whatever the dispatch did (refusal, help text, dropped type, forced
\* logout), and the delivery of an id of the ledger sends nothing to a room,
\* sends no mail and changes neither the user nor the rooms
C24_CompletedIsRecorded ==
    [][/\ CompletedStep => lastOp'.event_id \in Ledger(kv')
       /\ RedeliveredStep
          => /\ sent' = <<>>
             /\ effects' = effects
             /\ user' = user
             /\ rooms' = rooms
             /\ kv' = kv]_vars

(***************************************************************************)
(* C25: the thread of a room with more than one alias of the namespace.    *)
(***************************************************************************)
\* task t has just looked up the thread of a room that carries several aliases
AmbiguousLookup(t) ==
    /\ lastOp'.kind = "task_thread"
    /\ tasks[t].pc = "thread"
    /\ tasks'[t].pc # "thread"
    /\ Len(OurAliases(TaskEvent(t).room_id)) > 1

\* C25: the lookup of the thread of a room with more than one alias of the
\* namespace does not fail: it gives the thread of the first of them, and the
\* handling of the message goes on to the mail call
C25_FirstAliasWins ==
    [][\A t \in 1..2 :
          AmbiguousLookup(t)
          => /\ raised' = None
             /\ tasks'[t].pc = "mail"
             /\ tasks'[t].room_thread
                  = _extract_alias_thread(OurAliases(TaskEvent(t).room_id)[1])]_vars

(***************************************************************************)
(* C26: one mail thread per thread room.                                   *)
(***************************************************************************)
\* task t has just made the mail call for its message
MailStep(t) ==
    /\ lastOp'.kind = "task_mail"
    /\ tasks[t].pc = "mail"
    /\ tasks'[t].pc # "mail"

\* task t has just set the alias of the thread it started
AliasStep(t) ==
    /\ lastOp'.kind = "task_alias"
    /\ tasks[t].pc = "alias"
    /\ tasks'[t].pc # "alias"

\* C26: the first message of a logged-in user in a thread room without alias
\* starts one thread, with the name of the room as subject, and then sets the
\* alias of that thread on the room; every message that comes to its mail call
\* later is sent as a reply to that thread, and starts no further thread
C26_OneThreadPerRoom ==
    [][\A t \in 1..2 :
          /\ MailStep(t)
             => IF threads = 0
                THEN /\ threads' = 1
                     /\ Len(mails') = 1
                     /\ mails'[1].kind = "new"
                     /\ mails'[1].thread_id = NewThreadId(1)
                     /\ mails'[1].subject = rooms[TaskEvent(t).room_id].name
                ELSE /\ threads' = threads
                     /\ Len(mails') = 1
                     /\ mails'[1].kind = "reply"
                     /\ mails'[1].thread_id = NewThreadId(1)
          /\ AliasStep(t)
             => rooms'[TaskEvent(t).room_id].aliases
                  = Append(rooms[TaskEvent(t).room_id].aliases,
                           _generate_room_alias(W, tasks[t].thread_id))]_vars

(***************************************************************************)
(* C27: a thread-room message of a user without mail client.               *)
(***************************************************************************)
\* a message of the thread room is dispatched while the user has no mail client
NoClientThreadStep ==
    /\ lastOp'.kind = "event"
    /\ lastOp'.event_id \in {"$t1", "$t2"}
    /\ lastOp'.event_id \notin Ledger(kv)
    /\ hasBridge => gm = NoClient

Memberships == {{Alice} \cup others : others \in SUBSET {appservice_id, Bob, Carol, BotX, BotZ}}

InitMembers ==
    /\ \/ /\ hasBridge = FALSE
          /\ user = User(Alice)
          /\ gm = NoClient
          /\ kv = <<>>
       \/ /\ hasBridge = TRUE
          /\ user = LoggedInAlice
          /\ gm = NewClient(LoggedInAlice.token, LoggedInAlice.email_address,
                            LoggedInAlice.email_name)
          /\ kv = upsert_user(<<>>, LoggedInAlice)
    /\ \E members \in Memberships : rooms = [InitRooms EXCEPT !["!thr"].members = members]
    /\ threads = 0
    /\ subs = [id \in EventIds |-> 0]
    /\ passes = [id \in EventIds |-> 0]
    /\ effects = [id \in EventIds |-> 0]
    /\ sent = <<>>
    /\ mails = <<>>
    /\ raised = None
    /\ closed = 0
    /\ created = 0
    /\ revoked = <<>>
    /\ lastOp = [kind |-> "init", event_id |-> None, exchange |-> None]
    /\ nsub = 0
    /\ IdleSync
    /\ IdleSend
    /\ IdleUnit
    /\ mailbox = <<>>
    /\ delivered = {}

NextMembers == \E event \in ThreadMsgs : \E o \in Oracles(event) : Submit(event, o)

SpecMembers == InitMembers /\ [][NextMembers]_vars

(***************************************************************************)
(* C28: one person per room.                                               *)
(***************************************************************************)
\* the accounts of the room that are neither the bridge's nor the sender
OtherHumans(event) ==
    {m \in rooms[event.room_id].members :
        m # appservice_id /\ ~is_our_bot(m) /\ m # event.sender}

\* the event is dispatched, and not dropped as a duplicate
DispatchedStep(event) ==
    /\ lastOp'.kind = "event"
    /\ lastOp'.event_id = event.event_id
    /\ event.event_id \notin Ledger(kv)

Refusal(room_id) == [room |-> room_id, kind |-> "refused", arg |-> None]

\* C28: a message in a room with more than one person besides its sender is
\* answered with the refusal alone and causes no mail action and no change of the
\* user; a message in a room whose only person is its sender is not refused
C28_OnePersonPerRoom ==
    [][\A event \in ThreadMsgs :
          DispatchedStep(event)
          => /\ Cardinality(OtherHumans(event)) > 1
                => /\ sent' = <<Refusal(event.room_id)>>
                   /\ raised' = None
                   /\ mails' = <<>>
                   /\ threads' = threads
                   /\ effects' = effects
                   /\ rooms' = rooms
                   /\ gm' = gm
                   /\ hasBridge => user' = user
                   /\ ~hasBridge => user' = User(event.sender)
             /\ OtherHumans(event) = {}
                => \A i \in 1..Len(sent') : sent'[i].kind # "refused"]_vars

\* Alice, logged in, was refused in the room she shares with Bob, Carol and a
\* virtual account
C28_Witness ==
    /\ lastOp.kind = "event"
    /\ lastOp.event_id = "$t1"
    /\ {Bob, Carol, BotX} \subseteq rooms["!thr"].members
    /\ user.auth_state = "logged_in"
    /\ sent = <<Refusal("!thr")>>
    /\ effects["$t1"] = 0

(***************************************************************************)
(* Threads from both sides: the message $t1 of a logged-in user is         *)
(* delivered to the bridge, once or again, and mails arrive for the thread *)
(* g1 of the mailbox and for the threads the bridge started from the room; *)
(* the sync cycle delivers them.                                           *)
(***************************************************************************)
MaxThreadMails == 2

\* y@y.com answers: to the user, with a copy to x@y.com
ThreadMail(id, thread_id) == Mail(id, thread_id, "y@y.com", <<Me>>, <<"x@y.com">>)

NewThreadMail ==
    /\ Cardinality(DOMAIN mailbox) < MaxThreadMails
    /\ \E thread_id \in {"g1"} \cup {NewThreadId(n) : n \in 1..threads} :
          mailbox' = mailbox @@ (Cardinality(DOMAIN mailbox) + 1 :>
                                    ThreadMail(Cardinality(DOMAIN mailbox) + 1, thread_id))
    /\ lastOp' = [kind |-> "new_mail", event_id |-> None, exchange |-> None]
    /\ UNCHANGED <<hasBridge, user, gm, kv, rooms, threads, subs, passes, effects,
                   sent, mails, raised, closed, created, revoked, nsub>>
    /\ UNCHANGED <<pc, client, pages, ids, cur, cycle, startLast, delivered>>
    /\ UNCHANGED sendVars
    /\ UNCHANGED unitVars
    /\ UNCHANGED taskVars

InitThreads == InitLoggedIn /\ IdleSync /\ IdleSend /\ IdleUnit /\ mailbox = <<>> /\ delivered = {}

\* the mail call succeeds; the alias call succeeds or fails
ThreadOracles(event) ==
    {[exchange |-> "ok", gm |-> [AllOk EXCEPT ![event.event_id] = g]] :
        g \in {"ok", "AliasError"}}

NextThreads ==
    \/ \E o \in ThreadOracles(EventOf("$t1")) : Submit(EventOf("$t1"), o)
    \/ NewThreadMail
    \/ Sync

SpecThreads == InitThreads /\ [][NextThreads]_vars

(***************************************************************************)
(* C29: the room of a thread.                                              *)
(***************************************************************************)
\* the room the alias resolves to, among the rooms rs
RoomOfAlias(rs, room_alias) == resolve_room_alias([rooms |-> rs], room_alias)

RoomsOfAlias(rs, room_alias) == {r \in DOMAIN rs : InSeq(room_alias, rs[r].aliases)}

\* the mail the cycle held was delivered
DeliveredStep == lastOp'.kind = "sync_deliver"

ForbiddenStep ==
    /\ pc = "deliver"
    /\ lastOp'.kind \in {"sync_forbidden", "sync_error"}
    /\ lastOp'.kind = "sync_error" => raised' = "Forbidden"

\* C30: a delivery that fails as forbidden posts the remediation message into the
\* room of the thread and ends the cycle there, without an error raised; the
\* watermark, in memory and in the store, stays below the mail that failed
C30_ForbiddenHaltsCycle ==
    [][ForbiddenStep
       => /\ raised' = None
          /\ sent' = <<[room |-> _get_room_id_from_thread(W, mailbox[cur].thread_id),
                        kind |-> "permissions", arg |-> None]>>
          /\ pc' = "idle"
          /\ user'.last_mail_id < cur
          /\ get_user(kv', Alice).last_mail_id < cur]_vars

(***************************************************************************)
(* C31: a token expiry in the sync cycle.                                  *)
(***************************************************************************)
\* a step of the cycle has just raised TokenExpiredException
ExpiredInSync == lastOp'.kind = "sync_expired"

\* a step that asks the provider for mails, or hands one to its room
FetchOrDeliver ==
    lastOp'.kind \in {"sync_begin", "sync_list", "sync_yield", "sync_skip",
                      "sync_deliver", "sync_advance"}

Restarted ==
    /\ closed' = 1
    /\ created' = 1
    /\ gm' = NewClient(user'.token, user'.email_address, user'.email_name)

\* what a side command does besides changing its field
SideCommandFrame ==
    /\ raised' = None
    /\ get_user(kv', Alice) = user'
    /\ IF user.auth_state = "logged_in" THEN Restarted
       ELSE gm' = NoClient /\ closed' = 0 /\ created' = 0

\* C32: in every auth state the commands name and email set their field and
\* nothing else of the user (auth state, token and watermark stay), the user is
\* saved, and the mail client is restarted exactly if the user is logged in
C32_SideCommands ==
    [][/\ DispatchedStep(EventOf("$name"))
          => /\ user' = [user EXCEPT !.email_name = "al"]
             /\ sent' = <<[room |-> "!dm", kind |-> "name_set", arg |-> "al"]>>
             /\ SideCommandFrame
       /\ DispatchedStep(EventOf("$email"))
          => /\ user' = [user EXCEPT !.email_address = "al@x.io"]
             /\ sent' = <<[room |-> "!dm", kind |-> "email_set", arg |-> "al@x.io"]>>
             /\ SideCommandFrame]_vars

\* a logged-in user has set a name: the client was restarted with it
C32_Witness ==
    /\ lastOp.kind = "event"
    /\ lastOp.event_id = "$name"
    /\ user.auth_state = "logged_in"
    /\ user.email_name = "al"
    /\ gm = NewClient(user.token, user.email_address, "al")
    /\ closed = 1
    /\ created = 1

(***************************************************************************)
(* The commands of the users of SpecDm, with the process stopped and       *)
(* started again between them.                                             *)
(***************************************************************************)
NextRestart ==
    \/ \E event \in DmTexts : \E o \in Oracles(event) : Submit(event, o)
    \/ Crash

SpecRestart == InitDm /\ [][NextRestart]_vars

(***************************************************************************)
(* C33: the record of a user that has one.                                 *)
(***************************************************************************)
\* the steps of the auth state machine
AuthSteps ==
    {<<"logged_out", "waiting_for_token">>, <<"waiting_for_token", "logged_in">>,
     <<"logged_in", "logged_out">>}

\* C33: the record of an account is never removed, and an event of an account that
\* has a record leaves in it the watermark, the name unless the event is the
\* command name, the address unless the event sets, resolves or strips it, and the
\* auth state unless the event takes a step of the auth state machine
C33_RecordKept ==
    [][/\ UserKey \in DOMAIN kv => UserKey \in DOMAIN kv'
       /\ \A event \in DmTexts :
             (/\ lastOp'.kind = "event"
              /\ lastOp'.event_id = event.event_id
              /\ UserKey \in DOMAIN kv)
             => LET before == get_user(kv, Alice)
                    after == get_user(kv', Alice)
                IN  /\ after.last_mail_id = before.last_mail_id
                    /\ event.event_id # "$name" => after.email_name = before.email_name
                    /\ after.auth_state = before.auth_state
                       => \/ after.email_address = before.email_address
                          \/ event.event_id = "$email"
                    /\ after.auth_state # before.auth_state
                       => <<before.auth_state, after.auth_state>> \in AuthSteps]_vars

(***************************************************************************)
(* C34: the token a logout discards.                                       *)
(***************************************************************************)
\* C34: the command logout of a logged-in user issues one revoke call, for the
\* token the user held, and leaves the user logged out
C34_LogoutRevokes ==
    [][(DispatchedStep(EventOf("$logout")) /\ user.auth_state = "logged_in")
       => /\ revoked' = <<user.token.access_token>>
          /\ user'.auth_state = "logged_out"]_vars

(***************************************************************************)
(* C35: the mail client and the auth state.                                *)
(***************************************************************************)
\* the last step ran _logout_user or the login branch of _handle_dm
RanLogoutOrLogin ==
    \/ lastOp.kind = "sync_expired"
    \/ lastOp.kind = "event" /\ lastOp.event_id \in {e.event_id : e \in DmTexts}

\* C35: with no sync cycle in progress the bridge holds a mail client exactly if
\* the user is logged in, and no step that ran _logout_user or completed a login
\* ended with a failed assertion
C35_ClientIffLoggedIn ==
    /\ pc = "idle" => ((gm # NoClient) <=> (user.auth_state = "logged_in"))
    /\ RanLogoutOrLogin => raised # "AssertionError"

(***************************************************************************)
(* The sync loop of the process (AppState.sync_loop, app/main.py): round   *)
(* after round it iterates the bridge table and awaits the sync cycle of   *)
(* each bridge, then sleeps.  The loop is one task; while it is suspended, *)
(* in the sync cycle of a logged-in user or in its sleep, the events of    *)
(* the chat server are handled, and the first event of an account that has *)
(* no bridge puts one into the table.  The table is a dict: it keeps the   *)
(* order of insertion, and its iterator raises RuntimeError when asked for *)
(* the next item of a dict whose size is not the one it started with.      *)
(***************************************************************************)
MaxRounds == 3

LoopUsers == <<Alice, Bob, Carol>>

\* for user, bridge in self.bridges.items(): the next item is asked for.  The sync
\* cycle of a bridge without client returns at once, without suspending the loop.
RECURSIVE dict_next(_)
dict_next(l) ==
    IF Len(l.bridges) # l.size
    THEN [l EXCEPT !.pc = "dead", !.last = "RuntimeError"]
    ELSE IF l.it >= l.size
    THEN [l EXCEPT !.pc = "sleep", !.it = 0, !.round = @ + 1, !.last = "round_end"]
    ELSE LET matrix_id == l.bridges[l.it + 1]
         IN  IF matrix_id \in l.active
             THEN [l EXCEPT !.it = @ + 1, !.pc = "sync", !.last = "sync_gmails"]
             ELSE dict_next([l EXCEPT !.it = @ + 1, !.polled = @ \cup {matrix_id}])

LoopFrame ==
    /\ UNCHANGED bridgeVars
    /\ UNCHANGED syncVars
    /\ UNCHANGED sendVars
    /\ UNCHANGED unitVars
    /\ UNCHANGED tasks

\* the sleep ends: while True, the iterator of self.bridges.items() is made
LoopRound ==
    /\ loop.pc = "sleep"
    /\ loop.round < MaxRounds
    /\ loop' = dict_next([loop EXCEPT !.size = Len(loop.bridges), !.it = 0,
                                      !.due = loop.active, !.polled = {}])
    /\ LoopFrame

\* await bridge.sync_gmails() ends, or raises what except Exception catches and logs
LoopSync ==
    /\ loop.pc = "sync"
    /\ \E outcome \in {"ok", "Exception"} :
          loop' = dict_next([loop EXCEPT !.polled = @ \cup {loop.bridges[loop.it]},
                                         !.caught = IF outcome = "Exception" THEN 1 ELSE 0])
    /\ LoopFrame

\* on_matrix_event of a sender without bridge: self.bridges[event.sender] = ...
LoopFirstEvent ==
    /\ loop.pc \in {"sleep", "sync", "dead"}
    /\ \E i \in 1..Len(LoopUsers) :
          /\ ~InSeq(LoopUsers[i], loop.bridges)
          /\ loop' = [loop EXCEPT !.bridges = Append(@, LoopUsers[i]), !.last = "first_event"]
    /\ LoopFrame

\* a user that has a bridge completes a login
LoopLogin ==
    /\ loop.pc \in {"sleep", "sync", "dead"}
    /\ \E i \in 1..Len(loop.bridges) :
          /\ loop.bridges[i] \notin loop.active
          /\ loop' = [loop EXCEPT !.active = @ \cup {loop.bridges[i]}, !.last = "login"]
    /\ LoopFrame

\* AppState.start: a bridge for each active user of the store, then the loop task
InitLoop ==
    /\ InitBridge
    /\ IdleSync
    /\ IdleSend
    /\ mailbox = <<>>
    /\ delivered = {}
    /\ input = NoInput
    /\ encoded = None
    /\ decoded = None
    /\ written = <<>>
    /\ tasks = <<>>
    /\ \E n \in 0..2 :
          loop = [NoLoop EXCEPT !.bridges = SubSeq(LoopUsers, 1, n),
                                !.active = {LoopUsers[i] : i \in 1..n},
                                !.pc = "sleep"]

NextLoop == LoopRound \/ LoopSync \/ LoopFirstEvent \/ LoopLogin

SpecLoop == InitLoop /\ [][NextLoop]_vars

(***************************************************************************)
(* C36: the sync loop goes on.                                             *)
(***************************************************************************)
\* C36: the sync loop never ends, and a round that ends has polled every user
\* that was logged in when it began, whatever the sync cycles raised and whatever
\* bridges the events added to the table meanwhile
C36_LoopNeverStops ==
    /\ loop.pc # "dead"
    /\ loop.last = "round_end" => loop.due \subseteq loop.polled

(***************************************************************************)
(* Db.upsert_user (app/db.py) called for distinct users by transactions    *)
(* that overlap: each call reads the index, writes the record of its user  *)
(* and, if the index it read lacks the user, writes the index back; the    *)
(* calls are suspended at each of these awaits.                            *)
(***************************************************************************)
MaxUpserts == 2

\* the users upsert_user is called with: as on_matrix_event makes them, and logged in
UpsertUsers(matrix_id) == {User(matrix_id), logged_in(User(matrix_id), IssuedToken)}

\* a call of upsert_user(u) at its start, the n-th for its user
NewUpsert(u, n) == [user |-> u, pc |-> "index", all_user_ids |-> <<>>, n |-> n]

UpsertOp(kind) ==
    /\ lastOp' = [kind |-> kind, event_id |-> None, exchange |-> None]
    /\ UNCHANGED <<hasBridge, user, gm, rooms, threads, subs, passes, effects,
                   sent, mails, raised, closed, created, revoked, nsub>>
    /\ UNCHANGED syncVars
    /\ UNCHANGED sendVars
    /\ UNCHANGED unitVars
    /\ UNCHANGED loop

\* all_user_ids = await self._all_user_ids()
UpsertIndex(t) ==
    /\ tasks[t].pc = "index"
    /\ tasks' = [tasks EXCEPT ![t].all_user_ids = _all_user_ids(kv), ![t].pc = "user"]
    /\ UNCHANGED kv
    /\ UpsertOp("upsert_index")

\* await self.kv.set("u:" + user.matrix_id, user.json())
UpsertRecord(t) ==
    /\ tasks[t].pc = "user"
    /\ kv' = KvSet(kv, "u:" \o tasks[t].user.matrix_id, UserJson(tasks[t].user))
    /\ tasks' = [tasks EXCEPT ![t].pc =
                     IF ~InSeq(tasks[t].user.matrix_id, tasks[t].all_user_ids)
                     THEN "all" ELSE "done"]
    /\ UpsertOp("upsert_record")

\* all_user_ids.append(user.matrix_id); await self.kv.set("all", ...)
UpsertAll(t) ==
    /\ tasks[t].pc = "all"
    /\ kv' = KvSet(kv, "all", Append(tasks[t].all_user_ids, tasks[t].user.matrix_id))
    /\ tasks' = [tasks EXCEPT ![t].pc = "done"]
    /\ UpsertOp("upsert_all")

\* the user is upserted again
UpsertAgain(t) ==
    /\ tasks[t].pc = "done"
    /\ tasks[t].n < MaxUpserts
    /\ \E u \in UpsertUsers(tasks[t].user.matrix_id) :
          tasks' = [tasks EXCEPT ![t] = NewUpsert(u, tasks[t].n + 1)]
    /\ UNCHANGED kv
    /\ UpsertOp("upsert_again")

InitUpserts ==
    /\ InitBridge
    /\ IdleSync
    /\ IdleSend
    /\ mailbox = <<>>
    /\ delivered = {}
    /\ input = NoInput
    /\ encoded = None
    /\ decoded = None
    /\ written = <<>>
    /\ loop = NoLoop
    /\ \E a \in UpsertUsers(Alice), b \in UpsertUsers(Bob) :
          tasks = <<NewUpsert(a, 1), NewUpsert(b, 1)>>

NextUpserts ==
    \E t \in 1..Len(tasks) : UpsertIndex(t) \/ UpsertRecord(t) \/ UpsertAll(t) \/ UpsertAgain(t)

SpecUpserts == InitUpserts /\ [][NextUpserts]_vars

(***************************************************************************)
(* C37: the index of the user ids.                                         *)
(***************************************************************************)
\* how often the id stands in the index
TimesIndexed(store, matrix_id) ==
    Cardinality({i \in 1..Len(_all_user_ids(store)) : _all_user_ids(store)[i] = matrix_id})

\* the ids whose record was written by an upsert_user that has returned
Upserted == {tasks[t].user.matrix_id : t \in {t \in 1..Len(tasks) : tasks[t].pc = "done" \/ tasks[t].n > 1}}

\* C37: every user id whose upsert has returned stands exactly once in the index,
\* and all_active_users returns every user whose stored record is logged in
C37_IndexComplete ==
    /\ \A matrix_id \in Upserted : TimesIndexed(kv, matrix_id) = 1
    /\ \A matrix_id \in Upserted :
          get_user(kv, matrix_id).cls = "LoggedInUser"
          => InSeq(get_user(kv, matrix_id), all_active_users(kv))

(***************************************************************************)
(* The events the bridge's own accounts sent: pushed by the chat server in *)
(* a transaction, and read back from the room by the replay an invite      *)
(* starts.                                                                 *)
(***************************************************************************)
OwnRoom ==
    [members |-> {appservice_id, Alice, BotX}, users |-> (Alice :> 100 @@ BotX :> 0),
     users_default |-> 0, aliases |-> <<>>, name |-> "visit", history |-> FullHistory]

OwnOracles ==
    {[exchange |-> "ok", gm |-> [AllOk EXCEPT ![id] = g]] :
        id \in {"$own1", "$own2"}, g \in GmOutcomes}

InitOwn ==
    /\ hasBridge = TRUE
    /\ user = LoggedInAlice
    /\ gm = NewClient(LoggedInAlice.token, LoggedInAlice.email_address,
                      LoggedInAlice.email_name)
    /\ kv = upsert_user(<<>>, LoggedInAlice)
    /\ rooms = InitRooms @@ ("!own" :> OwnRoom)
    /\ threads = 0
    /\ subs = [id \in EventIds |-> 0]
    /\ passes = [id \in EventIds |-> 0]
    /\ effects = [id \in EventIds |-> 0]
    /\ sent = <<>>
    /\ mails = <<>>
    /\ raised = None
    /\ closed = 0
    /\ created = 0
    /\ revoked = <<>>
    /\ lastOp = [kind |-> "init", event_id |-> None, exchange |-> None]
    /\ nsub = 0
    /\ IdleSync
    /\ IdleSend
    /\ IdleUnit
    /\ mailbox = <<>>
    /\ delivered = {}

NextOwn ==
    \E event \in OwnEvents \cup DmTexts : \E o \in OwnOracles \cup Oracles(event) :
        Submit(event, o)

SpecOwn == InitOwn /\ [][NextOwn]_vars

(***************************************************************************)
(* C38: the events of the bridge's own accounts.                           *)
(***************************************************************************)
\* the events the application service or a virtual account sent
OwnSent == {e \in Events \cup HistEvents \cup OwnEvents :
               e.sender = appservice_id \/ is_our_bot(e.sender)}

\* C38: no mail is sent on behalf of an event the bridge's own accounts sent,
\* whether the event is pushed or replayed, and the push of such an event leaves
\* the user as it was and sends no mail
C38_OwnEventsInert ==
    [][/\ \A e \in OwnSent : effects'[e.event_id] = effects[e.event_id]
       /\ (lastOp'.kind = "event" /\ lastOp'.event_id \in {e.event_id : e \in OwnSent})
          => user' = user /\ mails' = <<>> /\ kv' = kv]_vars

(***************************************************************************)
(* The command logout of a logged-in user, await by await, while the sync  *)
(* loop polls the user: _logout_user (app/bridge.py) replaces self.user,   *)
(* awaits the save, awaits the close of the mail client and then drops it; *)
(* the steps of the sync cycle run between.                                *)
(***************************************************************************)
LogoutOp(kind, position) ==
    /\ lastOp' = [kind |-> kind, event_id |-> "$logout", exchange |-> None]
    /\ tasks' = <<[pc |-> position]>>
    /\ UNCHANGED <<hasBridge, nsub>>
    /\ UNCHANGED syncVars
    /\ UNCHANGED sendVars
    /\ UNCHANGED unitVars
    /\ UNCHANGED loop

\* the asserts hold; self.user = self.user.logged_out(), and the save is awaited
LogoutBegin ==
    /\ tasks[1].pc = "start"
    /\ user.auth_state = "logged_in"
    /\ gm # NoClient
    /\ Commit([W EXCEPT !.user = logged_out(user)])
    /\ LogoutOp("logout_begin", "upsert")

\* await self.db.upsert_user(self.user): the record of self.user is written
LogoutUpsert ==
    /\ tasks[1].pc = "upsert"
    /\ Commit(Upsert(W))
    /\ LogoutOp("logout_upsert", "close")

\* await self.gm.close() is called
LogoutClose ==
    /\ tasks[1].pc = "close"
    /\ Commit(CloseClient(W))
    /\ LogoutOp("logout_close", "drop")

\* the close returns: self.gm = None, and _handle_dm confirms the logout
LogoutDrop ==
    /\ tasks[1].pc = "drop"
    /\ Commit(Send([W EXCEPT !.gm = NoClient], "!dm", "logout_ok", None))
    /\ LogoutOp("logout_drop", "done")

InitLogout ==
    /\ InitLoggedIn
    /\ IdleSync
    /\ IdleSend
    /\ mailbox = <<>>
    /\ delivered = {}
    /\ input = NoInput
    /\ encoded = None
    /\ decoded = None
    /\ written = <<>>
    /\ loop = NoLoop
    /\ tasks = <<[pc |-> "start"]>>

NextLogout ==
    \/ LogoutBegin
    \/ LogoutUpsert
    \/ LogoutClose
    \/ LogoutDrop
    \/ NewMail
    \/ Sync

SpecLogout == InitLogout /\ [][NextLogout]_vars

(***************************************************************************)
(* C39: a logout while the sync cycle is suspended.                        *)
(***************************************************************************)
\* a step of the sync cycle, taken after the logout replaced the user
SyncStepAfterLogout ==
    /\ tasks[1].pc # "start"
    /\ pc # "idle"
    /\ lastOp'.kind \in {"sync_list", "sync_yield", "sync_skip", "sync_deliver",
                         "sync_advance", "sync_end", "sync_expired", "sync_forbidden",
                         "sync_error"}

\* C39: a sync cycle that goes on after the user's logout raises no error, and it
\* leaves the user logged out and without token, in memory and, once the logout
\* is saved, in the store
C39_LogoutDuringSync ==
    [][SyncStepAfterLogout
       => /\ raised' = None
          /\ user'.auth_state = "logged_out"
          /\ user'.token = NoToken
          /\ get_user(kv', Alice).auth_state = "logged_out"
             => get_user(kv', Alice).token = NoToken]_vars

(***************************************************************************)
(* The threads of a logged-in user who sets the address override: mails    *)
(* arrive for the thread g1, the sync cycle delivers them, and the user    *)
(* sends the command email.                                                *)
(***************************************************************************)
NextEmail ==
    \/ \E o \in Oracles(EventOf("$email")) : Submit(EventOf("$email"), o)
    \/ NewThreadMail
    \/ Sync

SpecEmail == InitThreads /\ [][NextEmail]_vars

(***************************************************************************)
(* C40: the rooms of the threads and the command email.                    *)
(***************************************************************************)
\* the rooms that carry an alias of the thread
RoomsOfThread(thread_id) ==
    {r \in DOMAIN rooms : _get_thread_from_room(W, r) = thread_id}

\* C40: a mail of a thread that has a room is delivered into that room and no
\* room is created for it, whatever address override the user has set since
C40_EmailKeepsRooms ==
    [][(DeliveredStep /\ RoomsOfThread(mailbox[cur].thread_id) # {})
       => /\ DOMAIN rooms' = DOMAIN rooms
          /\ \A i \in 1..Len(sent') : sent'[i].room \in RoomsOfThread(mailbox[cur].thread_id)]_vars

====
